---- MODULE Spec2Model ----
(***************************************************************************)
(* Asset-manager backend: the asset lifecycle state machine and the       *)
(* request workflow (routes/assignments.py, routes/requests.py,           *)
(* routes/maintenance.py), gated by the label-scoped role check           *)
(* (core/authz_utils.py).  Every route handler is one atomic action: the  *)
(* handler's guards in source order, then all of its repository writes.   *)
(* Spec runs the lifecycle and the request workflow from the empty        *)
(* tables; SpecAuthz runs the reads, the listings and the soft deletes    *)
(* (routes/assets.py, routes/user.py) over drawn grants and labels.       *)
(* SpecRoles runs the grants and the labels (routes/role.py,              *)
(* routes/labels.py), SpecAccounts the account flags (routes/user.py,     *)
(* core/auth.py), and SpecConcurrent runs check_out_asset commit by       *)
(* commit on the threads of the server's pool; SpecDecisions does the     *)
(* same for approve_request and reject_request.  SpecRetire runs the      *)
(* lifecycle next to delete_asset, SpecAssets the asset, label and link   *)
(* handlers (routes/assets.py, routes/labels.py).                         *)
(***************************************************************************)
EXTENDS Integers, Sequences, FiniteSets, TLC

\* ---------------------------------------------------------------- bounds
NumUsers == 2
NumAssets == 1
MaxRequests == 2
MaxAssignments == 2
StartDay == 1
MaxDueInDays == 1
MaxMaintenanceRate == 1
NumListedAssets == 2
NumWorkers == 2
MaxRoles == 5
MaxLabels == 2
MaxAssets == 2
MaxLinks == 1

\* ------------------------------------------------------------- constants
\* Optional column holding no value (returned_at, request_id, approved_by)
None == 0 - 1

HTTP_200_OK == 200
HTTP_400_BAD_REQUEST == 400
HTTP_401_UNAUTHORIZED == 401
HTTP_403_FORBIDDEN == 403
HTTP_404_NOT_FOUND == 404
HTTP_409_CONFLICT == 409
HTTP_422_UNPROCESSABLE == 422

AssetStatus == {"Available", "In Use", "Maintenance", "Reserved"}
RequestStatus == {"Pending", "Approved", "Rejected", "Fulfilled"}

UserIds == 1..NumUsers
\* the user an asset is checked out to
AssigneeInputs == {NumUsers}
\* ids a client may send: every stored id and one that resolves to nothing
AssetIdInputs == 1..(NumAssets + 1)
RequestIdInputs == 1..(MaxRequests + 1)
AssignmentIdInputs == 1..(MaxAssignments + 1)
DueInDaysInputs == 0..MaxDueInDays
UserIdInputs == 1..(NumUsers + 1)
\* the threads of the server's pool that run the handlers
Workers == 1..NumWorkers
\* a worker between two requests
Idle == [pc |-> "idle"]

\* the role names the API knows
RoleNames ==
    {"CreateEditUser", "ReadUser", "DeleteUser", "DisableUser",
     "ResetPasswordUser", "CreateEditAsset", "CheckInOutAsset", "ReadAsset",
     "RetireAsset", "LinkAsset", "RequestAsset"}
\* names of the rows of table labels
Labels == {"A", "B"}
\* a grant's scope: a label name or the wildcard
Scopes == Labels \cup {"*"}
\* role names a client may send: two the API knows and one it does not
RoleInputs == {"CreateEditUser", "ReadAsset", "Owner"}
LabelIdInputs == 1..(MaxLabels + 1)
\* the user a grant or a label is given to: the last user, or nobody's id
GranteeInputs == {NumUsers, NumUsers + 1}

VARIABLES
    assets,        \* table assets: id -> [status, last_maintenance]
    assetLabels,   \* label_mapping_asset joined to labels: asset id -> names
    roles,         \* table roles: id -> [user_id, role, scope]
    users,         \* table users joined to its labels: id -> row
    requests,      \* table requests: id -> [user_id, asset_id, status, approved_by]
    assignments,   \* table asset_assignments: id -> row
    now,           \* today, in days
    resp,          \* the response to the last API call
    signed,        \* per request: successful approve/reject calls so far
    labelTable,    \* table labels: id -> name
    inflight,      \* per worker thread: the check-out it is in the middle of
    wrapper,       \* TRUE when handlers run under an external lock
    linkedAssets   \* table linked_assets: id -> [asset_id, linked_id, relation]

vars == <<assets, assetLabels, roles, users, requests, assignments, now, resp,
          signed, labelTable, inflight, wrapper, linkedAssets>>

\* --------------------------------------------------------- authorization
\* has_role collecting the scopes of every grant, whatever its role name
has_role_any_role(user, role, labels) ==
    LET scopes == {roles[i].scope :
                     i \in {j \in DOMAIN roles : roles[j].user_id = user}}
    IN  "*" \in scopes \/ \A label \in labels : label \in scopes

\* has_role refusing a principal who holds no grant for the role
has_role_needing_grant(user, role, labels) ==
    LET scopes == {roles[i].scope :
                     i \in {j \in DOMAIN roles :
                              roles[j].user_id = user /\ roles[j].role = role}}
    IN  scopes # {} /\ ("*" \in scopes \/ \A label \in labels : label \in scopes)

has_role(user, role, labels) ==
    LET scopes == {roles[i].scope :
                     i \in {j \in DOMAIN roles :
                              roles[j].user_id = user /\ roles[j].role = role}}
    IN  "*" \in scopes \/ \A label \in labels : label \in scopes

\* ------------------------------------------------------------ repository
get_by_id(table, item_id) ==
    IF item_id \in DOMAIN table THEN item_id ELSE None

\* candidates of the LIMIT 1 query without ORDER BY
get_asset_assignment(asset_id) ==
    {i \in DOMAIN assignments :
        assignments[i].returned_at = None /\ assignments[i].asset_id = asset_id}

Response(op, code) ==
    [op |-> op, code |-> code]

Fail(op, code) ==
    /\ resp' = Response(op, code)
    /\ UNCHANGED <<assets, assetLabels, roles, users, requests, assignments, now,
                   labelTable, inflight, wrapper, linkedAssets, signed>>

\* the principal passes the CurrentActiveUser dependency
get_current_active_user(p) ==
    /\ ~(users[p].is_disabled \/ users[p].is_deleted)
    /\ ~users[p].reset_password

\* ------------------------------------------------------ collection queries
has_scope_all(user_id, role) ==
    \E i \in DOMAIN roles :
        roles[i].user_id = user_id /\ roles[i].scope = "*" /\ roles[i].role = role

get_roles(user_id, role) ==
    {i \in DOMAIN roles : roles[i].user_id = user_id /\ roles[i].role = role}

\* scope names resolved to the labels that exist; a label is identified by
\* its name
get_labels_by_roles(scopes) ==
    {labelTable[i] : i \in {j \in DOMAIN labelTable : labelTable[j] \in scopes}}

\* get_assets_by_labels asking for one label inside the scopes instead of no
\* label outside them
get_assets_by_labels_any(labels) ==
    {a \in DOMAIN assets : \E l \in assetLabels[a] : l \in labels}

get_assets_by_labels(labels) ==
    {a \in DOMAIN assets : ~\E l \in assetLabels[a] : l \notin labels}

get_users_by_labels(labels) ==
    {u \in DOMAIN users : ~\E l \in users[u].labels : l \notin labels}

\* get_requests_by_labels that also asks for a Pending request
get_requests_by_labels_pending(labels) ==
    {r \in DOMAIN requests :
        /\ requests[r].status = "Pending"
        /\ ~\E l \in assetLabels[requests[r].asset_id] : l \notin labels}

get_requests_by_labels(labels) ==
    {r \in DOMAIN requests :
        ~\E l \in assetLabels[requests[r].asset_id] : l \notin labels}

\* get_all without its `is_deleted == False` filter
get_all_including_deleted(table, subquery) ==
    {i \in DOMAIN table : i \in subquery}

\* subquery: the ids the filter lets through (every id when there is none)
get_all(table, subquery) ==
    {i \in DOMAIN table :
        /\ i \in subquery
        /\ ~("is_deleted" \in DOMAIN table[i] /\ table[i].is_deleted)}

get_by_status(status, subquery) ==
    {a \in DOMAIN assets :
        assets[a].status = status /\ a \in subquery /\ ~assets[a].is_deleted}

\* get_due_for_maintenance counting an asset exactly at its boundary as due
get_due_for_maintenance_at_boundary(subquery) ==
    {a \in get_all(assets, subquery) :
        assets[a].last_maintenance + assets[a].maintenance_rate <= now}

get_due_for_maintenance(subquery) ==
    {a \in get_all(assets, subquery) :
        assets[a].last_maintenance + assets[a].maintenance_rate < now}

\* a 200 response carrying the ids of the returned rows
Reply(op, items) ==
    /\ resp' = [op |-> op, code |-> HTTP_200_OK, items |-> items]
    /\ UNCHANGED <<assets, assetLabels, roles, users, requests, assignments, now,
                   labelTable, inflight, wrapper, linkedAssets, signed>>

\* ------------------------------------------------------------ initial state
Init ==
    /\ now = StartDay
    /\ assets = [a \in 1..NumAssets |->
                    [status |-> "Available", last_maintenance |-> 0,
                     maintenance_rate |-> MaxMaintenanceRate,
                     is_deleted |-> FALSE]]
    /\ assetLabels = [a \in 1..NumAssets |-> IF a = 1 THEN {"A"} ELSE {"B"}]
    /\ roles = <<[user_id |-> 1, role |-> "CheckInOutAsset", scope |-> "*"],
                 [user_id |-> 2, role |-> "CheckInOutAsset", scope |-> "B"],
                 [user_id |-> 2, role |-> "RequestAsset", scope |-> "A"]>>
    /\ users = [u \in UserIds |->
                   [labels |-> {}, is_disabled |-> FALSE, is_deleted |-> FALSE,
                    reset_password |-> FALSE]]
    /\ requests = <<>>
    /\ assignments = <<>>
    /\ resp = Response("none", HTTP_200_OK)
    /\ signed = [r \in 1..MaxRequests |-> 0]
    /\ labelTable = <<"A", "B">>
    /\ inflight = [w \in Workers |-> Idle]
    /\ wrapper = TRUE
    /\ linkedAssets = <<>>

\* ---------------------------------------------------------------- actions
\* check_out_asset without its `asset.status != "Available"` guard
check_out_asset_any_status(p, asset_id, user_id, due_in_days) ==
    LET op == "check_out_asset" IN
    IF due_in_days < 1 THEN Fail(op, HTTP_422_UNPROCESSABLE)
    ELSE IF get_by_id(assets, asset_id) = None
    THEN Fail(op, HTTP_404_NOT_FOUND)
    ELSE IF ~has_role(p, "CheckInOutAsset", assetLabels[asset_id])
    THEN Fail(op, HTTP_403_FORBIDDEN)
    ELSE
        /\ Len(assignments) < MaxAssignments
        /\ assets' = [assets EXCEPT ![asset_id].status = "In Use"]
        /\ assignments' = Append(assignments,
                [asset_id |-> asset_id, user_id |-> user_id,
                 assigned_by_id |-> p, due_date |-> now + due_in_days,
                 returned_at |-> None, request_id |-> None])
        /\ resp' = Response(op, HTTP_200_OK)
        /\ UNCHANGED <<assetLabels, roles, users, requests, now,
                       labelTable, inflight, wrapper, linkedAssets, signed>>

check_out_asset(p, asset_id, user_id, due_in_days) ==
    LET op == "check_out_asset" IN
    IF due_in_days < 1 THEN Fail(op, HTTP_422_UNPROCESSABLE)
    ELSE IF get_by_id(assets, asset_id) = None
    THEN Fail(op, HTTP_404_NOT_FOUND)
    ELSE IF ~has_role(p, "CheckInOutAsset", assetLabels[asset_id])
    THEN Fail(op, HTTP_403_FORBIDDEN)
    ELSE IF assets[asset_id].status # "Available"
    THEN Fail(op, HTTP_409_CONFLICT)
    ELSE
        /\ Len(assignments) < MaxAssignments
        /\ assets' = [assets EXCEPT ![asset_id].status = "In Use"]
        /\ assignments' = Append(assignments,
                [asset_id |-> asset_id, user_id |-> user_id,
                 assigned_by_id |-> p, due_date |-> now + due_in_days,
                 returned_at |-> None, request_id |-> None])
        /\ resp' = Response(op, HTTP_200_OK)
        /\ UNCHANGED <<assetLabels, roles, users, requests, now,
                       labelTable, inflight, wrapper, linkedAssets, signed>>

\* check_out_request marking the request Fulfilled before it tests the
\* asset's status
check_out_request_fulfilling_first(p, request_id, due_in_days) ==
    LET op == "check_out_request" IN
    IF due_in_days < 1 THEN Fail(op, HTTP_422_UNPROCESSABLE)
    ELSE IF get_by_id(requests, request_id) = None
    THEN Fail(op, HTTP_404_NOT_FOUND)
    ELSE LET request == requests[request_id] IN
    IF ~has_role(p, "CheckInOutAsset", assetLabels[request.asset_id])
    THEN Fail(op, HTTP_403_FORBIDDEN)
    ELSE IF assets[request.asset_id].status # "Reserved"
    THEN /\ requests' = [requests EXCEPT ![request_id].status = "Fulfilled"]
         /\ resp' = Response(op, HTTP_409_CONFLICT)
         /\ UNCHANGED <<assets, assetLabels, roles, users, assignments, now,
                        labelTable, inflight, wrapper, linkedAssets, signed>>
    ELSE
        /\ Len(assignments) < MaxAssignments
        /\ assets' = [assets EXCEPT ![request.asset_id].status = "In Use"]
        /\ requests' = [requests EXCEPT ![request_id].status = "Fulfilled"]
        /\ assignments' = Append(assignments,
                [asset_id |-> request.asset_id, user_id |-> request.user_id,
                 assigned_by_id |-> p, due_date |-> now + due_in_days,
                 returned_at |-> None, request_id |-> request_id])
        /\ resp' = Response(op, HTTP_200_OK)
        /\ UNCHANGED <<assetLabels, roles, users, now,
                       labelTable, inflight, wrapper, linkedAssets, signed>>

check_out_request(p, request_id, due_in_days) ==
    LET op == "check_out_request" IN
    IF due_in_days < 1 THEN Fail(op, HTTP_422_UNPROCESSABLE)
    ELSE IF get_by_id(requests, request_id) = None
    THEN Fail(op, HTTP_404_NOT_FOUND)
    ELSE LET request == requests[request_id] IN
    IF ~has_role(p, "CheckInOutAsset", assetLabels[request.asset_id])
    THEN Fail(op, HTTP_403_FORBIDDEN)
    ELSE IF assets[request.asset_id].status # "Reserved"
    THEN Fail(op, HTTP_409_CONFLICT)
    ELSE
        /\ Len(assignments) < MaxAssignments
        /\ assets' = [assets EXCEPT ![request.asset_id].status = "In Use"]
        /\ requests' = [requests EXCEPT ![request_id].status = "Fulfilled"]
        /\ assignments' = Append(assignments,
                [asset_id |-> request.asset_id, user_id |-> request.user_id,
                 assigned_by_id |-> p, due_date |-> now + due_in_days,
                 returned_at |-> None, request_id |-> request_id])
        /\ resp' = Response(op, HTTP_200_OK)
        /\ UNCHANGED <<assetLabels, roles, users, now,
                       labelTable, inflight, wrapper, linkedAssets, signed>>

\* check_in_asset_by_asset_id testing only for an active assignment
check_in_asset_by_asset_id_any_status(p, asset_id) ==
    LET op == "check_in_asset_by_asset_id" IN
    IF get_by_id(assets, asset_id) = None
    THEN Fail(op, HTTP_404_NOT_FOUND)
    ELSE IF ~has_role(p, "CheckInOutAsset", assetLabels[asset_id])
    THEN Fail(op, HTTP_403_FORBIDDEN)
    ELSE IF get_asset_assignment(asset_id) = {}
    THEN Fail(op, HTTP_409_CONFLICT)
    ELSE \E assignment \in get_asset_assignment(asset_id) :
        /\ assets' = [assets EXCEPT ![asset_id].status = "Available"]
        /\ assignments' = [assignments EXCEPT ![assignment].returned_at = now]
        /\ resp' = Response(op, HTTP_200_OK)
        /\ UNCHANGED <<assetLabels, roles, users, requests, now,
                       labelTable, inflight, wrapper, linkedAssets, signed>>

check_in_asset_by_asset_id(p, asset_id) ==
    LET op == "check_in_asset_by_asset_id" IN
    IF get_by_id(assets, asset_id) = None
    THEN Fail(op, HTTP_404_NOT_FOUND)
    ELSE IF ~has_role(p, "CheckInOutAsset", assetLabels[asset_id])
    THEN Fail(op, HTTP_403_FORBIDDEN)
    ELSE IF assets[asset_id].status # "In Use" \/ get_asset_assignment(asset_id) = {}
    THEN Fail(op, HTTP_409_CONFLICT)
    ELSE \E assignment \in get_asset_assignment(asset_id) :
        /\ assets' = [assets EXCEPT ![asset_id].status = "Available"]
        /\ assignments' = [assignments EXCEPT ![assignment].returned_at = now]
        /\ resp' = Response(op, HTTP_200_OK)
        /\ UNCHANGED <<assetLabels, roles, users, requests, now,
                       labelTable, inflight, wrapper, linkedAssets, signed>>

\* check_in_asset_by_assignment_id without its `status != "In Use"` guard
check_in_asset_by_assignment_id_any_status(p, asset_assignment_id) ==
    LET op == "check_in_asset_by_assignment_id" IN
    IF get_by_id(assignments, asset_assignment_id) = None
    THEN Fail(op, HTTP_409_CONFLICT)
    ELSE LET assignment == assignments[asset_assignment_id] IN
    IF ~has_role(p, "CheckInOutAsset", assetLabels[assignment.asset_id])
    THEN Fail(op, HTTP_403_FORBIDDEN)
    ELSE
        /\ assets' = [assets EXCEPT ![assignment.asset_id].status = "Available"]
        /\ assignments' = [assignments EXCEPT ![asset_assignment_id].returned_at = now]
        /\ resp' = Response(op, HTTP_200_OK)
        /\ UNCHANGED <<assetLabels, roles, users, requests, now,
                       labelTable, inflight, wrapper, linkedAssets, signed>>

check_in_asset_by_assignment_id(p, asset_assignment_id) ==
    LET op == "check_in_asset_by_assignment_id" IN
    IF get_by_id(assignments, asset_assignment_id) = None
    THEN Fail(op, HTTP_409_CONFLICT)
    ELSE LET assignment == assignments[asset_assignment_id] IN
    IF ~has_role(p, "CheckInOutAsset", assetLabels[assignment.asset_id])
    THEN Fail(op, HTTP_403_FORBIDDEN)
    ELSE IF assets[assignment.asset_id].status # "In Use"
    THEN Fail(op, HTTP_409_CONFLICT)
    ELSE
        /\ assets' = [assets EXCEPT ![assignment.asset_id].status = "Available"]
        /\ assignments' = [assignments EXCEPT ![asset_assignment_id].returned_at = now]
        /\ resp' = Response(op, HTTP_200_OK)
        /\ UNCHANGED <<assetLabels, roles, users, requests, now,
                       labelTable, inflight, wrapper, linkedAssets, signed>>

request_assignment_return(p, asset_assignment_id, due_in_days) ==
    LET op == "request_assignment_return" IN
    IF due_in_days < 0 THEN Fail(op, HTTP_422_UNPROCESSABLE)
    ELSE IF get_by_id(assignments, asset_assignment_id) = None
    THEN Fail(op, HTTP_404_NOT_FOUND)
    ELSE IF ~has_role(p, "CheckInOutAsset",
                      assetLabels[assignments[asset_assignment_id].asset_id])
    THEN Fail(op, HTTP_403_FORBIDDEN)
    ELSE
        /\ assignments' = [assignments EXCEPT
                              ![asset_assignment_id].due_date = now + due_in_days]
        /\ resp' = Response(op, HTTP_200_OK)
        /\ UNCHANGED <<assets, assetLabels, roles, users, requests, now,
                       labelTable, inflight, wrapper, linkedAssets, signed>>

submit_request(p, asset_id) ==
    LET op == "submit_request" IN
    IF get_by_id(assets, asset_id) = None
    THEN Fail(op, HTTP_404_NOT_FOUND)
    ELSE IF ~has_role(p, "RequestAsset", assetLabels[asset_id])
    THEN Fail(op, HTTP_403_FORBIDDEN)
    ELSE
        /\ Len(requests) < MaxRequests
        /\ requests' = Append(requests,
                [user_id |-> p, asset_id |-> asset_id, status |-> "Pending",
                 approved_by |-> None])
        /\ resp' = Response(op, HTTP_200_OK)
        /\ UNCHANGED <<assets, assetLabels, roles, users, assignments, now,
                       labelTable, inflight, wrapper, linkedAssets, signed>>

\* approve_request without its `status != "Pending"` guard
approve_request_any_status(p, request_id) ==
    LET op == "approve_request" IN
    IF get_by_id(requests, request_id) = None
    THEN Fail(op, HTTP_404_NOT_FOUND)
    ELSE LET request_model == requests[request_id] IN
    IF ~has_role(p, "CheckInOutAsset", assetLabels[request_model.asset_id])
    THEN Fail(op, HTTP_403_FORBIDDEN)
    ELSE
        /\ assets' = [assets EXCEPT ![request_model.asset_id].status = "Reserved"]
        /\ requests' = [requests EXCEPT ![request_id].status = "Approved",
                                        ![request_id].approved_by = p]
        /\ signed' = [signed EXCEPT ![request_id] = @ + 1]
        /\ resp' = Response(op, HTTP_200_OK)
        /\ UNCHANGED <<assetLabels, roles, users, assignments, now,
                       labelTable, inflight, wrapper, linkedAssets>>

approve_request(p, request_id) ==
    LET op == "approve_request" IN
    IF get_by_id(requests, request_id) = None
    THEN Fail(op, HTTP_404_NOT_FOUND)
    ELSE LET request_model == requests[request_id] IN
    IF request_model.status # "Pending"
    THEN Fail(op, HTTP_409_CONFLICT)
    ELSE IF ~has_role(p, "CheckInOutAsset", assetLabels[request_model.asset_id])
    THEN Fail(op, HTTP_403_FORBIDDEN)
    ELSE
        /\ assets' = [assets EXCEPT ![request_model.asset_id].status = "Reserved"]
        /\ requests' = [requests EXCEPT ![request_id].status = "Approved",
                                        ![request_id].approved_by = p]
        /\ signed' = [signed EXCEPT ![request_id] = @ + 1]
        /\ resp' = Response(op, HTTP_200_OK)
        /\ UNCHANGED <<assetLabels, roles, users, assignments, now,
                       labelTable, inflight, wrapper, linkedAssets>>

\* reject_request that reserves the asset the way approve_request does
reject_request_reserving(p, request_id) ==
    LET op == "reject_request" IN
    IF get_by_id(requests, request_id) = None
    THEN Fail(op, HTTP_404_NOT_FOUND)
    ELSE LET request_model == requests[request_id] IN
    IF request_model.status # "Pending"
    THEN Fail(op, HTTP_409_CONFLICT)
    ELSE IF ~has_role(p, "CheckInOutAsset", assetLabels[request_model.asset_id])
    THEN Fail(op, HTTP_403_FORBIDDEN)
    ELSE
        /\ assets' = [assets EXCEPT ![request_model.asset_id].status = "Reserved"]
        /\ requests' = [requests EXCEPT ![request_id].status = "Rejected",
                                        ![request_id].approved_by = p]
        /\ signed' = [signed EXCEPT ![request_id] = @ + 1]
        /\ resp' = Response(op, HTTP_200_OK)
        /\ UNCHANGED <<assetLabels, roles, users, assignments, now,
                       labelTable, inflight, wrapper, linkedAssets>>

reject_request(p, request_id) ==
    LET op == "reject_request" IN
    IF get_by_id(requests, request_id) = None
    THEN Fail(op, HTTP_404_NOT_FOUND)
    ELSE LET request_model == requests[request_id] IN
    IF request_model.status # "Pending"
    THEN Fail(op, HTTP_409_CONFLICT)
    ELSE IF ~has_role(p, "CheckInOutAsset", assetLabels[request_model.asset_id])
    THEN Fail(op, HTTP_403_FORBIDDEN)
    ELSE
        /\ requests' = [requests EXCEPT ![request_id].status = "Rejected",
                                        ![request_id].approved_by = p]
        /\ signed' = [signed EXCEPT ![request_id] = @ + 1]
        /\ resp' = Response(op, HTTP_200_OK)
        /\ UNCHANGED <<assets, assetLabels, roles, users, assignments, now,
                       labelTable, inflight, wrapper, linkedAssets>>

\* check_out_asset_for_maintenance without its `status != "Available"` guard
check_out_asset_for_maintenance_any_status(p, asset_id) ==
    LET op == "check_out_asset_for_maintenance" IN
    IF get_by_id(assets, asset_id) = None
    THEN Fail(op, HTTP_404_NOT_FOUND)
    ELSE IF ~has_role(p, "CheckInOutAsset", assetLabels[asset_id])
    THEN Fail(op, HTTP_403_FORBIDDEN)
    ELSE
        /\ assets' = [assets EXCEPT ![asset_id].status = "Maintenance"]
        /\ resp' = Response(op, HTTP_200_OK)
        /\ UNCHANGED <<assetLabels, roles, users, requests, assignments, now,
                       labelTable, inflight, wrapper, linkedAssets, signed>>

check_out_asset_for_maintenance(p, asset_id) ==
    LET op == "check_out_asset_for_maintenance" IN
    IF get_by_id(assets, asset_id) = None
    THEN Fail(op, HTTP_404_NOT_FOUND)
    ELSE IF ~has_role(p, "CheckInOutAsset", assetLabels[asset_id])
    THEN Fail(op, HTTP_403_FORBIDDEN)
    ELSE IF assets[asset_id].status # "Available"
    THEN Fail(op, HTTP_409_CONFLICT)
    ELSE
        /\ assets' = [assets EXCEPT ![asset_id].status = "Maintenance"]
        /\ resp' = Response(op, HTTP_200_OK)
        /\ UNCHANGED <<assetLabels, roles, users, requests, assignments, now,
                       labelTable, inflight, wrapper, linkedAssets, signed>>

\* check_in_asset_from_maintenance without its `status != "Maintenance"` guard
check_in_asset_from_maintenance_any_status(p, asset_id) ==
    LET op == "check_in_asset_from_maintenance" IN
    IF get_by_id(assets, asset_id) = None
    THEN Fail(op, HTTP_404_NOT_FOUND)
    ELSE IF ~has_role(p, "CheckInOutAsset", assetLabels[asset_id])
    THEN Fail(op, HTTP_403_FORBIDDEN)
    ELSE
        /\ assets' = [assets EXCEPT ![asset_id].status = "Available",
                                    ![asset_id].last_maintenance = now]
        /\ resp' = Response(op, HTTP_200_OK)
        /\ UNCHANGED <<assetLabels, roles, users, requests, assignments, now,
                       labelTable, inflight, wrapper, linkedAssets, signed>>

check_in_asset_from_maintenance(p, asset_id) ==
    LET op == "check_in_asset_from_maintenance" IN
    IF get_by_id(assets, asset_id) = None
    THEN Fail(op, HTTP_404_NOT_FOUND)
    ELSE IF ~has_role(p, "CheckInOutAsset", assetLabels[asset_id])
    THEN Fail(op, HTTP_403_FORBIDDEN)
    ELSE IF assets[asset_id].status # "Maintenance"
    THEN Fail(op, HTTP_409_CONFLICT)
    ELSE
        /\ assets' = [assets EXCEPT ![asset_id].status = "Available",
                                    ![asset_id].last_maintenance = now]
        /\ resp' = Response(op, HTTP_200_OK)
        /\ UNCHANGED <<assetLabels, roles, users, requests, assignments, now,
                       labelTable, inflight, wrapper, linkedAssets, signed>>

Next ==
    \/ \E p \in UserIds, a \in AssetIdInputs, u \in AssigneeInputs, d \in DueInDaysInputs :
          check_out_asset(p, a, u, d)
    \/ \E p \in UserIds, r \in RequestIdInputs, d \in DueInDaysInputs :
          check_out_request(p, r, d)
    \/ \E p \in UserIds, a \in AssetIdInputs : check_in_asset_by_asset_id(p, a)
    \/ \E p \in UserIds, i \in AssignmentIdInputs : check_in_asset_by_assignment_id(p, i)
    \/ \E p \in UserIds, i \in AssignmentIdInputs, d \in (0 - 1)..MaxDueInDays :
          request_assignment_return(p, i, d)
    \/ \E p \in UserIds, a \in AssetIdInputs : submit_request(p, a)
    \/ \E p \in UserIds, r \in RequestIdInputs : approve_request(p, r)
    \/ \E p \in UserIds, r \in RequestIdInputs : reject_request(p, r)
    \/ \E p \in UserIds, a \in AssetIdInputs : check_out_asset_for_maintenance(p, a)
    \/ \E p \in UserIds, a \in AssetIdInputs : check_in_asset_from_maintenance(p, a)

Spec == Init /\ [][Next]_vars
\* ------------------------------------- reads, listings and soft deletion
\* get_assets without its `len(roles) == 0` refusal
get_assets_without_refusal(p) ==
    LET op == "get_assets" IN
    IF ~get_current_active_user(p) THEN Fail(op, HTTP_401_UNAUTHORIZED)
    ELSE IF has_scope_all(p, "ReadAsset")
    THEN Reply(op, get_all(assets, DOMAIN assets))
    ELSE LET scopes == {roles[i].scope : i \in get_roles(p, "ReadAsset")} IN
    Reply(op, get_all(assets,
            get_assets_by_labels(get_labels_by_roles(scopes))))

get_assets(p) ==
    LET op == "get_assets" IN
    IF ~get_current_active_user(p) THEN Fail(op, HTTP_401_UNAUTHORIZED)
    ELSE IF has_scope_all(p, "ReadAsset")
    THEN Reply(op, get_all(assets, DOMAIN assets))
    ELSE LET scopes == {roles[i].scope : i \in get_roles(p, "ReadAsset")} IN
    IF get_roles(p, "ReadAsset") = {} THEN Fail(op, HTTP_403_FORBIDDEN)
    ELSE Reply(op, get_all(assets,
            get_assets_by_labels(get_labels_by_roles(scopes))))

get_assets_by_status(p, asset_status) ==
    LET op == "get_assets_by_status" IN
    IF ~get_current_active_user(p) THEN Fail(op, HTTP_401_UNAUTHORIZED)
    ELSE IF has_scope_all(p, "ReadAsset")
    THEN Reply(op, get_by_status(asset_status, DOMAIN assets))
    ELSE LET scopes == {roles[i].scope : i \in get_roles(p, "ReadAsset")} IN
    IF get_roles(p, "ReadAsset") = {} THEN Fail(op, HTTP_403_FORBIDDEN)
    ELSE Reply(op, get_by_status(asset_status,
            get_assets_by_labels(get_labels_by_roles(scopes))))

get_asset(p, asset_id) ==
    LET op == "get_asset" IN
    IF ~get_current_active_user(p) THEN Fail(op, HTTP_401_UNAUTHORIZED)
    ELSE IF get_by_id(assets, asset_id) = None
    THEN Fail(op, HTTP_404_NOT_FOUND)
    ELSE IF ~has_role(p, "ReadAsset", assetLabels[asset_id])
    THEN Fail(op, HTTP_403_FORBIDDEN)
    ELSE Reply(op, {asset_id})

delete_asset(p, asset_id) ==
    LET op == "delete_asset" IN
    IF ~get_current_active_user(p) THEN Fail(op, HTTP_401_UNAUTHORIZED)
    ELSE IF get_by_id(assets, asset_id) = None
    THEN Fail(op, HTTP_404_NOT_FOUND)
    ELSE IF ~has_role(p, "RetireAsset", assetLabels[asset_id])
    THEN Fail(op, HTTP_403_FORBIDDEN)
    ELSE
        /\ assets' = [assets EXCEPT ![asset_id].is_deleted = TRUE]
        /\ resp' = [op |-> op, code |-> HTTP_200_OK, items |-> {asset_id}]
        /\ UNCHANGED <<assetLabels, roles, users, requests, assignments, now,
                       labelTable, inflight, wrapper, linkedAssets, signed>>

get_users(p) ==
    LET op == "get_users" IN
    IF ~get_current_active_user(p) THEN Fail(op, HTTP_401_UNAUTHORIZED)
    ELSE IF has_scope_all(p, "ReadUser")
    THEN Reply(op, get_all(users, DOMAIN users))
    ELSE LET scopes == {roles[i].scope : i \in get_roles(p, "ReadUser")} IN
    IF get_roles(p, "ReadUser") = {} THEN Fail(op, HTTP_403_FORBIDDEN)
    ELSE Reply(op, get_all(users,
            get_users_by_labels(get_labels_by_roles(scopes))))

get_user(p, user_id) ==
    LET op == "get_user" IN
    IF ~get_current_active_user(p) THEN Fail(op, HTTP_401_UNAUTHORIZED)
    ELSE IF get_by_id(users, user_id) = None
    THEN Fail(op, HTTP_404_NOT_FOUND)
    ELSE IF ~(has_role(p, "ReadUser", users[user_id].labels) \/ user_id = p)
    THEN Fail(op, HTTP_403_FORBIDDEN)
    ELSE Reply(op, {user_id})

delete_user(p, user_id, temp) ==
    LET op == "delete_user" IN
    IF ~get_current_active_user(p) THEN Fail(op, HTTP_401_UNAUTHORIZED)
    ELSE IF user_id = p THEN Fail(op, HTTP_403_FORBIDDEN)
    ELSE IF get_by_id(users, user_id) = None
    THEN Fail(op, HTTP_404_NOT_FOUND)
    ELSE IF temp
    THEN IF ~has_role(p, "DisableUser", users[user_id].labels)
         THEN Fail(op, HTTP_403_FORBIDDEN)
         ELSE /\ users' = [users EXCEPT ![user_id].is_disabled = TRUE]
              /\ resp' = [op |-> op, code |-> HTTP_200_OK, items |-> {user_id}]
              /\ UNCHANGED <<assets, assetLabels, roles, requests, assignments, now,
                             labelTable, inflight, wrapper, linkedAssets, signed>>
    ELSE IF ~has_role(p, "DeleteUser", users[user_id].labels)
    THEN Fail(op, HTTP_403_FORBIDDEN)
    ELSE
        /\ users' = [users EXCEPT ![user_id].is_deleted = TRUE]
        /\ resp' = [op |-> op, code |-> HTTP_200_OK, items |-> {user_id}]
        /\ UNCHANGED <<assets, assetLabels, roles, requests, assignments, now,
                       labelTable, inflight, wrapper, linkedAssets, signed>>

get_all_requests_to_approve(p) ==
    LET op == "get_all_requests_to_approve" IN
    IF ~get_current_active_user(p) THEN Fail(op, HTTP_401_UNAUTHORIZED)
    ELSE IF has_scope_all(p, "CheckInOutAsset")
    THEN Reply(op, get_all(requests, DOMAIN requests))
    ELSE LET scopes == {roles[i].scope : i \in get_roles(p, "CheckInOutAsset")} IN
    IF get_roles(p, "CheckInOutAsset") = {} THEN Fail(op, HTTP_403_FORBIDDEN)
    ELSE Reply(op, get_all(requests,
            get_requests_by_labels(get_labels_by_roles(scopes))))

assets_due_for_maintenance(p) ==
    LET op == "assets_due_for_maintenance" IN
    IF ~get_current_active_user(p) THEN Fail(op, HTTP_401_UNAUTHORIZED)
    ELSE IF has_scope_all(p, "ReadAsset")
    THEN Reply(op, get_due_for_maintenance(DOMAIN assets))
    ELSE LET scopes == {roles[i].scope : i \in get_roles(p, "ReadAsset")} IN
    IF get_roles(p, "ReadAsset") = {} THEN Fail(op, HTTP_403_FORBIDDEN)
    ELSE Reply(op, get_due_for_maintenance(
            get_assets_by_labels(get_labels_by_roles(scopes))))

\* the rows of a table, in some order of insertion
RECURSIVE SeqOfSet(_)
SeqOfSet(S) ==
    IF S = {} THEN <<>>
    ELSE LET x == CHOOSE y \in S : TRUE IN <<x>> \o SeqOfSet(S \ {x})

Grants(user_id, names, scopes) ==
    {[user_id |-> user_id, role |-> r, scope |-> s] : r \in names, s \in scopes}

\* Two users, two assets, two requests and one open assignment.  User 1 may
\* retire, delete and disable everything and reads assets labelled 'A';
\* user 2 requests everything and holds the three listing roles with a drawn
\* set of scopes; user 1 is labelled 'A', user 2 unlabeled.  The labels of the
\* assets are drawn; asset 1 is exactly at its maintenance boundary and asset
\* 2 is one day past it.
InitAuthz ==
    /\ now = StartDay + MaxMaintenanceRate + 1
    /\ \E l \in SUBSET Labels, m \in SUBSET {"B"} :
          assetLabels = [a \in 1..NumListedAssets |-> IF a = 1 THEN l ELSE m]
    /\ assets = [a \in 1..NumListedAssets |->
                    [status |-> IF a = 1 THEN "In Use" ELSE "Reserved",
                     last_maintenance |-> IF a = 1 THEN StartDay + 1 ELSE StartDay,
                     maintenance_rate |-> MaxMaintenanceRate,
                     is_deleted |-> FALSE]]
    /\ \E s \in SUBSET Scopes :
          roles = SeqOfSet(
                    Grants(1, {"RetireAsset", "DeleteUser", "DisableUser"}, {"*"})
                    \cup Grants(1, {"ReadAsset"}, {"A"})
                    \cup Grants(2, {"RequestAsset"}, {"*"})
                    \cup Grants(2, {"ReadAsset", "ReadUser", "CheckInOutAsset"}, s))
    /\ users = [u \in UserIds |->
                   [labels |-> IF u = 1 THEN {"A"} ELSE {},
                    is_disabled |-> FALSE, is_deleted |-> FALSE,
                    reset_password |-> FALSE]]
    /\ requests = <<[user_id |-> 2, asset_id |-> 1, status |-> "Pending",
                     approved_by |-> None],
                    [user_id |-> 2, asset_id |-> 2, status |-> "Approved",
                     approved_by |-> 1]>>
    /\ assignments = <<[asset_id |-> 1, user_id |-> 2, assigned_by_id |-> 1,
                        due_date |-> StartDay + 1, returned_at |-> None,
                        request_id |-> None]>>
    /\ resp = Response("none", HTTP_200_OK)
    /\ signed = [r \in 1..MaxRequests |-> IF r = 2 THEN 1 ELSE 0]
    /\ labelTable = <<"A", "B">>
    /\ inflight = [w \in Workers |-> Idle]
    /\ wrapper = TRUE
    /\ linkedAssets = <<>>

NextAuthz ==
    \/ \E p \in UserIds : get_assets(p)
    \/ \E p \in UserIds, st \in AssetStatus : get_assets_by_status(p, st)
    \/ \E p \in UserIds, a \in 1..(NumListedAssets + 1) : get_asset(p, a)
    \/ \E p \in UserIds, a \in 1..(NumListedAssets + 1) : delete_asset(p, a)
    \/ \E p \in UserIds : get_users(p)
    \/ \E p \in UserIds, u \in UserIdInputs : get_user(p, u)
    \/ \E p \in UserIds, u \in UserIdInputs, temp \in BOOLEAN : delete_user(p, u, temp)
    \/ \E p \in UserIds : get_all_requests_to_approve(p)
    \/ \E p \in UserIds : assets_due_for_maintenance(p)

SpecAuthz == InitAuthz /\ [][NextAuthz]_vars

\* --------------------------------------------------- grants and labels
\* the id of the label of that name, or None
get_by_name(name) ==
    IF \E i \in DOMAIN labelTable : labelTable[i] = name
    THEN CHOOSE i \in DOMAIN labelTable : labelTable[i] = name
    ELSE None

\* the rows the query of get_role matches; .first() returns one of them
get_role(user_id, role, scope) ==
    {i \in DOMAIN roles :
        roles[i] = [user_id |-> user_id, role |-> role, scope |-> scope]}

\* a hard delete: the row leaves its table
delete(table, i) ==
    SubSeq(table, 1, i - 1) \o SubSeq(table, i + 1, Len(table))

\* assign_role without its has_role(current_user, role.role, labels) check
assign_role_one_check(p, user_id, role, scope) ==
    LET op == "assign_role" IN
    IF ~get_current_active_user(p) THEN Fail(op, HTTP_401_UNAUTHORIZED)
    ELSE IF get_by_id(users, user_id) = None
    THEN Fail(op, HTTP_404_NOT_FOUND)
    ELSE IF role \notin RoleNames THEN Fail(op, HTTP_404_NOT_FOUND)
    ELSE IF scope # "*" /\ get_by_name(scope) = None
    THEN Fail(op, HTTP_404_NOT_FOUND)
    ELSE IF ~has_role(p, "CreateEditUser", users[user_id].labels \cup {scope})
    THEN Fail(op, HTTP_403_FORBIDDEN)
    ELSE
        /\ Len(roles) < MaxRoles
        /\ roles' = Append(roles,
                [user_id |-> user_id, role |-> role, scope |-> scope])
        /\ resp' = Response(op, HTTP_200_OK)
        /\ UNCHANGED <<assets, assetLabels, users, requests, assignments, now,
                       signed, labelTable, inflight, wrapper, linkedAssets>>

\* assign_role checking both roles over the user's labels without role.scope
assign_role_unscoped(p, user_id, role, scope) ==
    LET op == "assign_role" IN
    IF ~get_current_active_user(p) THEN Fail(op, HTTP_401_UNAUTHORIZED)
    ELSE IF get_by_id(users, user_id) = None
    THEN Fail(op, HTTP_404_NOT_FOUND)
    ELSE IF role \notin RoleNames THEN Fail(op, HTTP_404_NOT_FOUND)
    ELSE IF scope # "*" /\ get_by_name(scope) = None
    THEN Fail(op, HTTP_404_NOT_FOUND)
    ELSE IF ~( /\ has_role(p, "CreateEditUser", users[user_id].labels)
               /\ has_role(p, role, users[user_id].labels) )
    THEN Fail(op, HTTP_403_FORBIDDEN)
    ELSE
        /\ Len(roles) < MaxRoles
        /\ roles' = Append(roles,
                [user_id |-> user_id, role |-> role, scope |-> scope])
        /\ resp' = Response(op, HTTP_200_OK)
        /\ UNCHANGED <<assets, assetLabels, users, requests, assignments, now,
                       signed, labelTable, inflight, wrapper, linkedAssets>>

\* assign_role answering with the existing row when the triple is granted
assign_role_idempotent(p, user_id, role, scope) ==
    LET op == "assign_role" IN
    IF ~get_current_active_user(p) THEN Fail(op, HTTP_401_UNAUTHORIZED)
    ELSE IF get_by_id(users, user_id) = None
    THEN Fail(op, HTTP_404_NOT_FOUND)
    ELSE IF role \notin RoleNames THEN Fail(op, HTTP_404_NOT_FOUND)
    ELSE IF scope # "*" /\ get_by_name(scope) = None
    THEN Fail(op, HTTP_404_NOT_FOUND)
    ELSE IF ~( /\ has_role(p, "CreateEditUser", users[user_id].labels \cup {scope})
               /\ has_role(p, role, users[user_id].labels \cup {scope}) )
    THEN Fail(op, HTTP_403_FORBIDDEN)
    ELSE IF get_role(user_id, role, scope) # {}
    THEN /\ resp' = Response(op, HTTP_200_OK)
         /\ UNCHANGED <<assets, assetLabels, roles, users, requests,
                        assignments, now, signed, labelTable, inflight, wrapper,
                        linkedAssets>>
    ELSE
        /\ Len(roles) < MaxRoles
        /\ roles' = Append(roles,
                [user_id |-> user_id, role |-> role, scope |-> scope])
        /\ resp' = Response(op, HTTP_200_OK)
        /\ UNCHANGED <<assets, assetLabels, users, requests, assignments, now,
                       signed, labelTable, inflight, wrapper, linkedAssets>>

assign_role(p, user_id, role, scope) ==
    LET op == "assign_role" IN
    IF ~get_current_active_user(p) THEN Fail(op, HTTP_401_UNAUTHORIZED)
    ELSE IF get_by_id(users, user_id) = None
    THEN Fail(op, HTTP_404_NOT_FOUND)
    ELSE IF role \notin RoleNames THEN Fail(op, HTTP_404_NOT_FOUND)
    ELSE IF scope # "*" /\ get_by_name(scope) = None
    THEN Fail(op, HTTP_404_NOT_FOUND)
    ELSE IF ~( /\ has_role(p, "CreateEditUser", users[user_id].labels \cup {scope})
               /\ has_role(p, role, users[user_id].labels \cup {scope}) )
    THEN Fail(op, HTTP_403_FORBIDDEN)
    ELSE
        /\ Len(roles) < MaxRoles
        /\ roles' = Append(roles,
                [user_id |-> user_id, role |-> role, scope |-> scope])
        /\ resp' = Response(op, HTTP_200_OK)
        /\ UNCHANGED <<assets, assetLabels, users, requests, assignments, now,
                       signed, labelTable, inflight, wrapper, linkedAssets>>

delete_role(p, user_id, role, scope) ==
    LET op == "delete_role" IN
    IF ~get_current_active_user(p) THEN Fail(op, HTTP_401_UNAUTHORIZED)
    ELSE IF get_by_id(users, user_id) = None
    THEN Fail(op, HTTP_404_NOT_FOUND)
    ELSE IF ~( /\ has_role(p, "CreateEditUser", users[user_id].labels \cup {scope})
               /\ has_role(p, role, users[user_id].labels \cup {scope}) )
    THEN Fail(op, HTTP_403_FORBIDDEN)
    ELSE IF get_role(user_id, role, scope) = {}
    THEN Fail(op, HTTP_404_NOT_FOUND)
    ELSE
        /\ \E role_obj \in get_role(user_id, role, scope) :
              roles' = delete(roles, role_obj)
        /\ resp' = Response(op, HTTP_200_OK)
        /\ UNCHANGED <<assets, assetLabels, users, requests, assignments, now,
                       signed, labelTable, inflight, wrapper, linkedAssets>>

\* create_label inserting a row whether or not the name is taken
create_label_always_creating(p, name) ==
    LET op == "create_label" IN
    IF ~get_current_active_user(p) THEN Fail(op, HTTP_401_UNAUTHORIZED)
    ELSE IF ~( \/ has_role(p, "CreateEditUser", {"*"})
               \/ has_role(p, "CreateEditAsset", {"*"}) )
    THEN Fail(op, HTTP_403_FORBIDDEN)
    ELSE
        /\ Len(labelTable) < MaxLabels + 1
        /\ labelTable' = Append(labelTable, name)
        /\ resp' = [op |-> op, code |-> HTTP_200_OK,
                    items |-> {Len(labelTable) + 1}]
        /\ UNCHANGED <<assets, assetLabels, roles, users, requests,
                       assignments, now, signed, inflight, wrapper,
                       linkedAssets>>

\* has_role is handed the string "*": its one character is its one label
create_label(p, name) ==
    LET op == "create_label" IN
    IF ~get_current_active_user(p) THEN Fail(op, HTTP_401_UNAUTHORIZED)
    ELSE IF ~( \/ has_role(p, "CreateEditUser", {"*"})
               \/ has_role(p, "CreateEditAsset", {"*"}) )
    THEN Fail(op, HTTP_403_FORBIDDEN)
    ELSE IF get_by_name(name) = None
    THEN /\ Len(labelTable) < MaxLabels
         /\ labelTable' = Append(labelTable, name)
         /\ resp' = [op |-> op, code |-> HTTP_200_OK,
                     items |-> {Len(labelTable) + 1}]
         /\ UNCHANGED <<assets, assetLabels, roles, users, requests,
                        assignments, now, signed, inflight, wrapper,
                        linkedAssets>>
    ELSE Reply(op, {get_by_name(name)})

\* a user carries at most one mapping row per label: the call is made for a
\* label the user does not carry yet
assign_label_to_user(p, user_id, label_id) ==
    LET op == "assign_label_to_user" IN
    IF ~get_current_active_user(p) THEN Fail(op, HTTP_401_UNAUTHORIZED)
    ELSE IF get_by_id(users, user_id) = None
    THEN Fail(op, HTTP_404_NOT_FOUND)
    ELSE IF get_by_id(labelTable, label_id) = None
    THEN Fail(op, HTTP_404_NOT_FOUND)
    ELSE IF ~has_role(p, "CreateEditUser",
                      users[user_id].labels \cup {labelTable[label_id]})
    THEN Fail(op, HTTP_403_FORBIDDEN)
    ELSE
        /\ labelTable[label_id] \notin users[user_id].labels
        /\ users' = [users EXCEPT
                        ![user_id].labels = @ \cup {labelTable[label_id]}]
        /\ resp' = Response(op, HTTP_200_OK)
        /\ UNCHANGED <<assets, assetLabels, roles, requests, assignments, now,
                       signed, labelTable, inflight, wrapper, linkedAssets>>

unassign_label_from_user(p, user_id, label_id) ==
    LET op == "unassign_label_from_user" IN
    IF ~get_current_active_user(p) THEN Fail(op, HTTP_401_UNAUTHORIZED)
    ELSE IF ~( /\ user_id \in DOMAIN users
               /\ label_id \in DOMAIN labelTable
               /\ labelTable[label_id] \in users[user_id].labels )
    THEN Fail(op, HTTP_404_NOT_FOUND)
    ELSE IF ~has_role(p, "CreateEditUser", users[user_id].labels)
    THEN Fail(op, HTTP_403_FORBIDDEN)
    ELSE
        /\ users' = [users EXCEPT
                        ![user_id].labels = @ \ {labelTable[label_id]}]
        /\ resp' = Response(op, HTTP_200_OK)
        /\ UNCHANGED <<assets, assetLabels, roles, requests, assignments, now,
                       signed, labelTable, inflight, wrapper, linkedAssets>>

\* One label, one asset, two users.  User 1 edits every user and reads the
\* assets labelled 'A'; user 2 edits the users labelled 'A' and is labelled
\* or not.
InitRoles ==
    /\ now = StartDay
    /\ assets = [a \in 1..NumAssets |->
                    [status |-> "Available", last_maintenance |-> 0,
                     maintenance_rate |-> MaxMaintenanceRate,
                     is_deleted |-> FALSE]]
    /\ assetLabels = [a \in 1..NumAssets |-> {"A"}]
    /\ roles = <<[user_id |-> 1, role |-> "CreateEditUser", scope |-> "*"],
                 [user_id |-> 1, role |-> "ReadAsset", scope |-> "A"],
                 [user_id |-> 2, role |-> "CreateEditUser", scope |-> "A"]>>
    /\ \E l \in SUBSET {"A"} :
          users = [u \in UserIds |->
                      [labels |-> IF u = 1 THEN {} ELSE l,
                       is_disabled |-> FALSE, is_deleted |-> FALSE,
                       reset_password |-> FALSE]]
    /\ requests = <<>>
    /\ assignments = <<>>
    /\ resp = Response("none", HTTP_200_OK)
    /\ signed = [r \in 1..MaxRequests |-> 0]
    /\ labelTable = <<"A">>
    /\ inflight = [w \in Workers |-> Idle]
    /\ wrapper = TRUE
    /\ linkedAssets = <<>>

NextRoles ==
    \/ \E p \in UserIds, u \in GranteeInputs, r \in RoleInputs, s \in Scopes :
          assign_role(p, u, r, s)
    \/ \E p \in UserIds, u \in GranteeInputs, r \in RoleInputs, s \in Scopes :
          delete_role(p, u, r, s)
    \/ \E p \in UserIds, name \in Labels : create_label(p, name)
    \/ \E p \in UserIds, u \in GranteeInputs, l \in LabelIdInputs :
          assign_label_to_user(p, u, l)
    \/ \E p \in UserIds, u \in GranteeInputs, l \in LabelIdInputs :
          unassign_label_from_user(p, u, l)

SpecRoles == InitRoles /\ [][NextRoles]_vars

\* the answers of the four listings to principal p
assets_listing(p) ==
    IF has_scope_all(p, "ReadAsset")
    THEN [code |-> HTTP_200_OK, items |-> get_all(assets, DOMAIN assets)]
    ELSE LET scopes == {roles[i].scope : i \in get_roles(p, "ReadAsset")} IN
    IF get_roles(p, "ReadAsset") = {}
    THEN [code |-> HTTP_403_FORBIDDEN, items |-> {}]
    ELSE [code |-> HTTP_200_OK,
          items |-> get_all(assets,
                        get_assets_by_labels(get_labels_by_roles(scopes)))]

users_listing(p) ==
    IF has_scope_all(p, "ReadUser")
    THEN [code |-> HTTP_200_OK, items |-> get_all(users, DOMAIN users)]
    ELSE LET scopes == {roles[i].scope : i \in get_roles(p, "ReadUser")} IN
    IF get_roles(p, "ReadUser") = {}
    THEN [code |-> HTTP_403_FORBIDDEN, items |-> {}]
    ELSE [code |-> HTTP_200_OK,
          items |-> get_all(users,
                        get_users_by_labels(get_labels_by_roles(scopes)))]

requests_listing(p) ==
    IF has_scope_all(p, "CheckInOutAsset")
    THEN [code |-> HTTP_200_OK, items |-> get_all(requests, DOMAIN requests)]
    ELSE LET scopes == {roles[i].scope : i \in get_roles(p, "CheckInOutAsset")} IN
    IF get_roles(p, "CheckInOutAsset") = {}
    THEN [code |-> HTTP_403_FORBIDDEN, items |-> {}]
    ELSE [code |-> HTTP_200_OK,
          items |-> get_all(requests,
                        get_requests_by_labels(get_labels_by_roles(scopes)))]

maintenance_listing(p) ==
    IF has_scope_all(p, "ReadAsset")
    THEN [code |-> HTTP_200_OK, items |-> get_due_for_maintenance(DOMAIN assets)]
    ELSE LET scopes == {roles[i].scope : i \in get_roles(p, "ReadAsset")} IN
    IF get_roles(p, "ReadAsset") = {}
    THEN [code |-> HTTP_403_FORBIDDEN, items |-> {}]
    ELSE [code |-> HTTP_200_OK,
          items |-> get_due_for_maintenance(
                        get_assets_by_labels(get_labels_by_roles(scopes)))]

\* ------------------------------------------- check-out, commit by commit
\* the external lock, when there is one, is free for worker w
lock_free(w) ==
    wrapper => \A v \in Workers \ {w} : inflight[v] = Idle

\* the reads of check_out_asset entered without taking the external lock
check_out_asset_read_unlocked(w, p, asset_id, user_id, due_in_days) ==
    LET op == "check_out_asset" IN
    /\ inflight[w] = Idle
    /\ IF due_in_days < 1 THEN Fail(op, HTTP_422_UNPROCESSABLE)
       ELSE IF get_by_id(assets, asset_id) = None
       THEN Fail(op, HTTP_404_NOT_FOUND)
       ELSE IF ~has_role(p, "CheckInOutAsset", assetLabels[asset_id])
       THEN Fail(op, HTTP_403_FORBIDDEN)
       ELSE IF assets[asset_id].status # "Available"
       THEN Fail(op, HTTP_409_CONFLICT)
       ELSE
           /\ Len(assignments)
                  + Cardinality({v \in Workers : inflight[v] # Idle})
                  < MaxAssignments
           /\ inflight' = [inflight EXCEPT ![w] =
                  [pc |-> "update", p |-> p, asset_id |-> asset_id,
                   user_id |-> user_id, due_in_days |-> due_in_days]]
           /\ UNCHANGED <<assets, assetLabels, roles, users, requests,
                          assignments, now, resp, signed, labelTable, wrapper,
                          linkedAssets>>

\* worker w runs the handler up to its first write: validation, asset_exists,
\* has_role and the test of the status it read
check_out_asset_read(w, p, asset_id, user_id, due_in_days) ==
    LET op == "check_out_asset" IN
    /\ inflight[w] = Idle
    /\ lock_free(w)
    /\ IF due_in_days < 1 THEN Fail(op, HTTP_422_UNPROCESSABLE)
       ELSE IF get_by_id(assets, asset_id) = None
       THEN Fail(op, HTTP_404_NOT_FOUND)
       ELSE IF ~has_role(p, "CheckInOutAsset", assetLabels[asset_id])
       THEN Fail(op, HTTP_403_FORBIDDEN)
       ELSE IF assets[asset_id].status # "Available"
       THEN Fail(op, HTTP_409_CONFLICT)
       ELSE
           /\ Len(assignments)
                  + Cardinality({v \in Workers : inflight[v] # Idle})
                  < MaxAssignments
           /\ inflight' = [inflight EXCEPT ![w] =
                  [pc |-> "update", p |-> p, asset_id |-> asset_id,
                   user_id |-> user_id, due_in_days |-> due_in_days]]
           /\ UNCHANGED <<assets, assetLabels, roles, users, requests,
                          assignments, now, resp, signed, labelTable, wrapper,
                          linkedAssets>>

\* asset_repo.update(asset, {"status": "In Use"}) and its commit
check_out_asset_update(w) ==
    /\ inflight[w].pc = "update"
    /\ assets' = [assets EXCEPT ![inflight[w].asset_id].status = "In Use"]
    /\ inflight' = [inflight EXCEPT ![w].pc = "create"]
    /\ UNCHANGED <<assetLabels, roles, users, requests, assignments, now,
                   resp, signed, labelTable, wrapper, linkedAssets>>

\* assignment_repo.check_out_asset(...), its commit and the 200 response
check_out_asset_create(w) ==
    /\ inflight[w].pc = "create"
    /\ assignments' = Append(assignments,
            [asset_id |-> inflight[w].asset_id, user_id |-> inflight[w].user_id,
             assigned_by_id |-> inflight[w].p,
             due_date |-> now + inflight[w].due_in_days,
             returned_at |-> None, request_id |-> None])
    /\ resp' = Response("check_out_asset", HTTP_200_OK)
    /\ inflight' = [inflight EXCEPT ![w] = Idle]
    /\ UNCHANGED <<assets, assetLabels, roles, users, requests, now, signed,
                   labelTable, wrapper, linkedAssets>>

\* One 'Available' asset and no assignment; the handlers run with or without
\* an external lock around each of them.
InitConcurrent ==
    /\ now = StartDay
    /\ assets = [a \in 1..NumAssets |->
                    [status |-> "Available", last_maintenance |-> 0,
                     maintenance_rate |-> MaxMaintenanceRate,
                     is_deleted |-> FALSE]]
    /\ \E l \in SUBSET Labels : assetLabels = [a \in 1..NumAssets |-> l]
    /\ roles = <<[user_id |-> 1, role |-> "CheckInOutAsset", scope |-> "*"],
                 [user_id |-> 2, role |-> "CheckInOutAsset", scope |-> "B"]>>
    /\ users = [u \in UserIds |->
                   [labels |-> {}, is_disabled |-> FALSE, is_deleted |-> FALSE,
                    reset_password |-> FALSE]]
    /\ requests = <<>>
    /\ assignments = <<>>
    /\ resp = Response("none", HTTP_200_OK)
    /\ signed = [r \in 1..MaxRequests |-> 0]
    /\ labelTable = <<"A", "B">>
    /\ inflight = [w \in Workers |-> Idle]
    /\ wrapper \in BOOLEAN
    /\ linkedAssets = <<>>

NextConcurrent ==
    \/ \E w \in Workers, p \in UserIds, a \in AssetIdInputs,
          u \in AssigneeInputs, d \in DueInDaysInputs :
          check_out_asset_read(w, p, a, u, d)
    \/ \E w \in Workers : check_out_asset_update(w)
    \/ \E w \in Workers : check_out_asset_create(w)

SpecConcurrent == InitConcurrent /\ [][NextConcurrent]_vars

\* ------------------------------------------------------------- accounts
\* the principal passes the CurrentActiveUserPasswordResetRoutes dependency
get_current_active_user_password_reset_routes(p) ==
    ~(users[p].is_disabled \/ users[p].is_deleted)

get_myself(p) ==
    LET op == "get_myself" IN
    IF ~get_current_active_user_password_reset_routes(p)
    THEN Fail(op, HTTP_401_UNAUTHORIZED)
    ELSE Reply(op, {p})

reset_password_self(p) ==
    LET op == "reset_password_self" IN
    IF ~get_current_active_user_password_reset_routes(p)
    THEN Fail(op, HTTP_401_UNAUTHORIZED)
    ELSE
        /\ users' = [users EXCEPT ![p].reset_password = FALSE]
        /\ resp' = Response(op, HTTP_200_OK)
        /\ UNCHANGED <<assets, assetLabels, roles, requests, assignments, now,
                       signed, labelTable, inflight, wrapper, linkedAssets>>

\* enable_user depending on the password-reset-routes dependency, which an
\* account that must reset its password passes
enable_user_on_reset_routes(p, user_id) ==
    LET op == "enable_user" IN
    IF ~get_current_active_user_password_reset_routes(p)
    THEN Fail(op, HTTP_401_UNAUTHORIZED)
    ELSE IF get_by_id(users, user_id) = None
    THEN Fail(op, HTTP_404_NOT_FOUND)
    ELSE IF ~has_role(p, "DisableUser", users[user_id].labels)
    THEN Fail(op, HTTP_403_FORBIDDEN)
    ELSE
        /\ users' = [users EXCEPT ![user_id].is_disabled = FALSE]
        /\ resp' = [op |-> op, code |-> HTTP_200_OK, items |-> {user_id}]
        /\ UNCHANGED <<assets, assetLabels, roles, requests, assignments, now,
                       signed, labelTable, inflight, wrapper, linkedAssets>>

enable_user(p, user_id) ==
    LET op == "enable_user" IN
    IF ~get_current_active_user(p) THEN Fail(op, HTTP_401_UNAUTHORIZED)
    ELSE IF get_by_id(users, user_id) = None
    THEN Fail(op, HTTP_404_NOT_FOUND)
    ELSE IF ~has_role(p, "DisableUser", users[user_id].labels)
    THEN Fail(op, HTTP_403_FORBIDDEN)
    ELSE
        /\ users' = [users EXCEPT ![user_id].is_disabled = FALSE]
        /\ resp' = [op |-> op, code |-> HTTP_200_OK, items |-> {user_id}]
        /\ UNCHANGED <<assets, assetLabels, roles, requests, assignments, now,
                       signed, labelTable, inflight, wrapper, linkedAssets>>

reset_password(p, user_id) ==
    LET op == "reset_password" IN
    IF ~get_current_active_user(p) THEN Fail(op, HTTP_401_UNAUTHORIZED)
    ELSE IF user_id = p THEN Fail(op, HTTP_400_BAD_REQUEST)
    ELSE IF get_by_id(users, user_id) = None
    THEN Fail(op, HTTP_404_NOT_FOUND)
    ELSE IF ~has_role(p, "ResetPasswordUser", users[user_id].labels)
    THEN Fail(op, HTTP_403_FORBIDDEN)
    ELSE
        /\ users' = [users EXCEPT ![user_id].reset_password = TRUE]
        /\ resp' = Response(op, HTTP_200_OK)
        /\ UNCHANGED <<assets, assetLabels, roles, requests, assignments, now,
                       signed, labelTable, inflight, wrapper, linkedAssets>>

\* Two users and one asset.  User 1 disables, deletes and resets every
\* account; user 2 disables and resets the accounts that carry no label but
\* 'A', its own among them, and reads nothing; user 1 is labelled or not.
InitAccounts ==
    /\ now = StartDay
    /\ assets = [a \in 1..NumAssets |->
                    [status |-> "Available", last_maintenance |-> 0,
                     maintenance_rate |-> MaxMaintenanceRate,
                     is_deleted |-> FALSE]]
    /\ assetLabels = [a \in 1..NumAssets |-> {"A"}]
    /\ roles = SeqOfSet(
                 Grants(1, {"DisableUser", "DeleteUser", "ResetPasswordUser",
                            "ReadUser"}, {"*"})
                 \cup Grants(2, {"DisableUser", "ResetPasswordUser"}, {"A"}))
    /\ \E l \in SUBSET {"A"} :
          users = [u \in UserIds |->
                      [labels |-> IF u = 1 THEN l ELSE {},
                       is_disabled |-> FALSE, is_deleted |-> FALSE,
                       reset_password |-> FALSE]]
    /\ requests = <<>>
    /\ assignments = <<>>
    /\ resp = Response("none", HTTP_200_OK)
    /\ signed = [r \in 1..MaxRequests |-> 0]
    /\ labelTable = <<"A", "B">>
    /\ inflight = [w \in Workers |-> Idle]
    /\ wrapper = TRUE
    /\ linkedAssets = <<>>

NextAccounts ==
    \/ \E p \in UserIds : get_myself(p)
    \/ \E p \in UserIds : reset_password_self(p)
    \/ \E p \in UserIds, u \in UserIdInputs : enable_user(p, u)
    \/ \E p \in UserIds, u \in UserIdInputs : reset_password(p, u)
    \/ \E p \in UserIds, u \in UserIdInputs, temp \in BOOLEAN :
          delete_user(p, u, temp)
    \/ \E p \in UserIds, u \in UserIdInputs : get_user(p, u)
    \/ \E p \in UserIds : get_users(p)
    \/ \E p \in UserIds : get_assets(p)

SpecAccounts == InitAccounts /\ [][NextAccounts]_vars

\* ------------------------------------------------ get_by_id with its flag
\* getattr(self.model, "is_deleted") reads the attribute of the mapped class,
\* the column, not the flag of the item: an object, which is truthy
model_is_deleted == TRUE

\* get_by_id(item_id, include_deleted); the id stands for the item
get_by_id_include_deleted(table, item_id, include_deleted) ==
    LET item == IF item_id \in DOMAIN table THEN item_id ELSE None IN
    IF /\ ~include_deleted
       /\ item # None
       /\ "is_deleted" \in DOMAIN table[item]
    THEN IF model_is_deleted THEN None ELSE item
    ELSE item

\* ------------------------------------------- lifecycle of a retired asset
\* The tables of Init, where user 1 may also retire every asset.
InitRetire ==
    /\ now = StartDay
    /\ assets = [a \in 1..NumAssets |->
                    [status |-> "Available", last_maintenance |-> 0,
                     maintenance_rate |-> MaxMaintenanceRate,
                     is_deleted |-> FALSE]]
    /\ assetLabels = [a \in 1..NumAssets |-> {"A"}]
    /\ roles = <<[user_id |-> 1, role |-> "CheckInOutAsset", scope |-> "*"],
                 [user_id |-> 1, role |-> "RetireAsset", scope |-> "*"],
                 [user_id |-> 2, role |-> "CheckInOutAsset", scope |-> "B"],
                 [user_id |-> 2, role |-> "RequestAsset", scope |-> "A"]>>
    /\ users = [u \in UserIds |->
                   [labels |-> {}, is_disabled |-> FALSE, is_deleted |-> FALSE,
                    reset_password |-> FALSE]]
    /\ requests = <<>>
    /\ assignments = <<>>
    /\ resp = Response("none", HTTP_200_OK)
    /\ signed = [r \in 1..MaxRequests |-> 0]
    /\ labelTable = <<"A", "B">>
    /\ inflight = [w \in Workers |-> Idle]
    /\ wrapper = TRUE
    /\ linkedAssets = <<>>

NextRetire ==
    \/ \E p \in UserIds, a \in AssetIdInputs : delete_asset(p, a)
    \/ \E p \in UserIds, a \in AssetIdInputs, u \in AssigneeInputs,
          d \in DueInDaysInputs : check_out_asset(p, a, u, d)
    \/ \E p \in UserIds, r \in RequestIdInputs, d \in DueInDaysInputs :
          check_out_request(p, r, d)
    \/ \E p \in UserIds, a \in AssetIdInputs : check_in_asset_by_asset_id(p, a)
    \/ \E p \in UserIds, a \in AssetIdInputs : submit_request(p, a)
    \/ \E p \in UserIds, r \in RequestIdInputs : approve_request(p, r)
    \/ \E p \in UserIds, a \in AssetIdInputs : check_out_asset_for_maintenance(p, a)
    \/ \E p \in UserIds, a \in AssetIdInputs : check_in_asset_from_maintenance(p, a)

SpecRetire == InitRetire /\ [][NextRetire]_vars

\* ------------------------------------------- assets, their labels and links
\* create_asset(labels, maintenance_rate): the other columns of the schema
\* are not read by any handler
create_asset(p, labels, maintenance_rate) ==
    LET op == "create_asset" IN
    IF ~get_current_active_user(p) THEN Fail(op, HTTP_401_UNAUTHORIZED)
    ELSE IF labels = {} THEN Fail(op, HTTP_400_BAD_REQUEST)
    ELSE IF ~has_role(p, "CreateEditAsset", labels)
    THEN Fail(op, HTTP_403_FORBIDDEN)
    ELSE IF \E label_name \in labels : get_by_name(label_name) = None
    THEN Fail(op, HTTP_400_BAD_REQUEST)
    ELSE
        /\ Len(assets) < MaxAssets
        /\ assets' = Append(assets,
                [status |-> "Available", last_maintenance |-> now,
                 maintenance_rate |-> maintenance_rate, is_deleted |-> FALSE])
        /\ assetLabels' = [a \in 1..(Len(assets) + 1) |->
                              IF a \in DOMAIN assetLabels THEN assetLabels[a]
                              ELSE labels]
        /\ resp' = [op |-> op, code |-> HTTP_200_OK,
                    items |-> {Len(assets) + 1}]
        /\ UNCHANGED <<roles, users, requests, assignments, now, signed,
                       labelTable, inflight, wrapper, linkedAssets>>

\* update_asset when the update also writes the status column
update_asset_writing_status(p, asset_id, maintenance_rate) ==
    LET op == "update_asset" IN
    IF ~get_current_active_user(p) THEN Fail(op, HTTP_401_UNAUTHORIZED)
    ELSE IF get_by_id(assets, asset_id) = None
    THEN Fail(op, HTTP_404_NOT_FOUND)
    ELSE IF ~has_role(p, "CreateEditAsset", assetLabels[asset_id])
    THEN Fail(op, HTTP_403_FORBIDDEN)
    ELSE
        /\ assets' = IF maintenance_rate = None \/ maintenance_rate = 0
                     THEN assets
                     ELSE [assets EXCEPT
                              ![asset_id].maintenance_rate = maintenance_rate,
                              ![asset_id].status = "Available"]
        /\ resp' = [op |-> op, code |-> HTTP_200_OK, items |-> {asset_id}]
        /\ UNCHANGED <<assetLabels, roles, users, requests, assignments, now,
                       signed, labelTable, inflight, wrapper, linkedAssets>>

\* update_asset(maintenance_rate): of the six columns of UpdateAssetSchema
\* the table of the model keeps maintenance_rate; None and 0 are filtered out
update_asset(p, asset_id, maintenance_rate) ==
    LET op == "update_asset" IN
    IF ~get_current_active_user(p) THEN Fail(op, HTTP_401_UNAUTHORIZED)
    ELSE IF get_by_id(assets, asset_id) = None
    THEN Fail(op, HTTP_404_NOT_FOUND)
    ELSE IF ~has_role(p, "CreateEditAsset", assetLabels[asset_id])
    THEN Fail(op, HTTP_403_FORBIDDEN)
    ELSE
        /\ assets' = IF maintenance_rate = None \/ maintenance_rate = 0
                     THEN assets
                     ELSE [assets EXCEPT
                              ![asset_id].maintenance_rate = maintenance_rate]
        /\ resp' = [op |-> op, code |-> HTTP_200_OK, items |-> {asset_id}]
        /\ UNCHANGED <<assetLabels, roles, users, requests, assignments, now,
                       signed, labelTable, inflight, wrapper, linkedAssets>>

\* an asset carries at most one mapping row per label: the call is made for
\* a label the asset does not carry yet
assign_label_to_asset(p, asset_id, label_id) ==
    LET op == "assign_label_to_asset" IN
    IF ~get_current_active_user(p) THEN Fail(op, HTTP_401_UNAUTHORIZED)
    ELSE IF get_by_id(assets, asset_id) = None
    THEN Fail(op, HTTP_404_NOT_FOUND)
    ELSE IF get_by_id(labelTable, label_id) = None
    THEN Fail(op, HTTP_404_NOT_FOUND)
    ELSE IF ~has_role(p, "CreateEditAsset",
                      assetLabels[asset_id] \cup {labelTable[label_id]})
    THEN Fail(op, HTTP_403_FORBIDDEN)
    ELSE
        /\ labelTable[label_id] \notin assetLabels[asset_id]
        /\ assetLabels' = [assetLabels EXCEPT
                              ![asset_id] = @ \cup {labelTable[label_id]}]
        /\ resp' = Response(op, HTTP_200_OK)
        /\ UNCHANGED <<assets, roles, users, requests, assignments, now,
                       signed, labelTable, inflight, wrapper, linkedAssets>>

unassign_label_from_asset(p, asset_id, label_id) ==
    LET op == "unassign_label_from_asset" IN
    IF ~get_current_active_user(p) THEN Fail(op, HTTP_401_UNAUTHORIZED)
    ELSE IF ~( /\ asset_id \in DOMAIN assets
               /\ label_id \in DOMAIN labelTable
               /\ labelTable[label_id] \in assetLabels[asset_id] )
    THEN Fail(op, HTTP_404_NOT_FOUND)
    ELSE IF ~has_role(p, "CreateEditAsset", assetLabels[asset_id])
    THEN Fail(op, HTTP_403_FORBIDDEN)
    ELSE
        /\ assetLabels' = [assetLabels EXCEPT
                              ![asset_id] = @ \ {labelTable[label_id]}]
        /\ resp' = Response(op, HTTP_200_OK)
        /\ UNCHANGED <<assets, roles, users, requests, assignments, now,
                       signed, labelTable, inflight, wrapper, linkedAssets>>

\* the rows the query of get_link matches; .first() returns one of them
get_link(asset_id, linked_id) ==
    {i \in DOMAIN linkedAssets :
        /\ linkedAssets[i].asset_id = asset_id
        /\ linkedAssets[i].linked_id = linked_id}

link_assets(p, asset_id, linked_id, relation) ==
    LET op == "link_assets" IN
    IF ~get_current_active_user(p) THEN Fail(op, HTTP_401_UNAUTHORIZED)
    ELSE IF get_by_id(assets, asset_id) = None
    THEN Fail(op, HTTP_404_NOT_FOUND)
    ELSE IF get_by_id(assets, linked_id) = None
    THEN Fail(op, HTTP_404_NOT_FOUND)
    ELSE IF ~has_role(p, "LinkAsset",
                      assetLabels[asset_id] \cup assetLabels[linked_id])
    THEN Fail(op, HTTP_403_FORBIDDEN)
    ELSE
        /\ Len(linkedAssets) < MaxLinks
        /\ linkedAssets' = Append(linkedAssets,
                [asset_id |-> asset_id, linked_id |-> linked_id,
                 relation |-> relation])
        /\ resp' = Response(op, HTTP_200_OK)
        /\ UNCHANGED <<assets, assetLabels, roles, users, requests,
                       assignments, now, signed, labelTable, inflight, wrapper>>

unlink_assets(p, asset_id, linked_id) ==
    LET op == "unlink_assets" IN
    IF ~get_current_active_user(p) THEN Fail(op, HTTP_401_UNAUTHORIZED)
    ELSE IF get_by_id(assets, asset_id) = None
    THEN Fail(op, HTTP_404_NOT_FOUND)
    ELSE IF get_by_id(assets, linked_id) = None
    THEN Fail(op, HTTP_404_NOT_FOUND)
    ELSE IF get_link(asset_id, linked_id) = {}
    THEN Fail(op, HTTP_404_NOT_FOUND)
    ELSE IF ~has_role(p, "LinkAsset",
                      assetLabels[asset_id] \cup assetLabels[linked_id])
    THEN Fail(op, HTTP_403_FORBIDDEN)
    ELSE
        /\ \E link \in get_link(asset_id, linked_id) :
              linkedAssets' = delete(linkedAssets, link)
        /\ resp' = Response(op, HTTP_200_OK)
        /\ UNCHANGED <<assets, assetLabels, roles, users, requests,
                       assignments, now, signed, labelTable, inflight, wrapper>>

\* The seeded assets in a drawn status, labelled 'A' or unlabeled; asset 1 has
\* one returned Assignment and, when 'In Use', one active Assignment.  User
\* 1 creates, edits and links every asset and edits every user; user 2
\* creates and edits the assets labelled 'A'.
InitAssets ==
    /\ now = StartDay
    /\ \E st \in AssetStatus :
          /\ assets = [a \in 1..NumAssets |->
                          [status |-> st, last_maintenance |-> 0,
                           maintenance_rate |-> MaxMaintenanceRate,
                           is_deleted |-> FALSE]]
          /\ assignments =
                <<[asset_id |-> 1, user_id |-> NumUsers, assigned_by_id |-> 1,
                   due_date |-> StartDay, returned_at |-> StartDay,
                   request_id |-> None]>>
                \o IF st = "In Use"
                   THEN <<[asset_id |-> 1, user_id |-> NumUsers,
                           assigned_by_id |-> 1, due_date |-> StartDay + 1,
                           returned_at |-> None, request_id |-> None]>>
                   ELSE <<>>
    /\ \E l \in SUBSET {"A"} : assetLabels = [a \in 1..NumAssets |-> l]
    /\ roles = <<[user_id |-> 1, role |-> "CreateEditAsset", scope |-> "*"],
                 [user_id |-> 1, role |-> "LinkAsset", scope |-> "*"],
                 [user_id |-> 1, role |-> "CreateEditUser", scope |-> "*"],
                 [user_id |-> 2, role |-> "CreateEditAsset", scope |-> "A"]>>
    /\ users = [u \in UserIds |->
                   [labels |-> {}, is_disabled |-> FALSE, is_deleted |-> FALSE,
                    reset_password |-> FALSE]]
    /\ requests = <<>>
    /\ resp = Response("none", HTTP_200_OK)
    /\ signed = [r \in 1..MaxRequests |-> 0]
    /\ labelTable = <<"A">>
    /\ inflight = [w \in Workers |-> Idle]
    /\ wrapper = TRUE
    /\ linkedAssets = <<>>

NextAssets ==
    \/ \E p \in UserIds, l \in SUBSET {"A", "C"} : create_asset(p, l, MaxMaintenanceRate)
    \/ \E p \in UserIds, a \in 1..(MaxAssets + 1),
          m \in {0, MaxMaintenanceRate + 1} : update_asset(p, a, m)
    \/ \E a \in 1..NumAssets : delete_asset(1, a)
    \/ \E p \in UserIds, a \in 1..(MaxAssets + 1), l \in LabelIdInputs :
          assign_label_to_asset(p, a, l)
    \/ \E p \in UserIds, a \in 1..(MaxAssets + 1), l \in LabelIdInputs :
          unassign_label_from_asset(p, a, l)
    \/ \E a \in 1..(MaxAssets + 1) : link_assets(1, 1, a, "License")
    \/ \E a \in 1..(MaxAssets + 1) : unlink_assets(1, 1, a)
    \/ \E a \in 1..NumAssets : submit_request(NumUsers, a)
    \/ \E i \in AssignmentIdInputs, d \in {0, MaxDueInDays} :
          request_assignment_return(1, i, d)
    \/ \E u \in GranteeInputs, s \in {"A"} : assign_role(1, u, "CreateEditUser", s)
    \/ \E u \in GranteeInputs, s \in {"A"} : delete_role(1, u, "CreateEditUser", s)
    \/ get_assets(NumUsers)
    \/ \E a \in 1..MaxAssets : get_asset(NumUsers, a)

SpecAssets == InitAssets /\ [][NextAssets]_vars

\* ------------------------------------ approve and reject, commit by commit
\* approve_request up to the role check: the handler's session has read the
\* request and found it 'Pending'
approve_request_read(w, p, request_id) ==
    LET op == "approve_request" IN
    /\ inflight[w] = Idle
    /\ IF get_by_id(requests, request_id) = None
       THEN Fail(op, HTTP_404_NOT_FOUND)
       ELSE IF requests[request_id].status # "Pending"
       THEN Fail(op, HTTP_409_CONFLICT)
       ELSE IF ~has_role(p, "CheckInOutAsset",
                         assetLabels[requests[request_id].asset_id])
       THEN Fail(op, HTTP_403_FORBIDDEN)
       ELSE
           /\ inflight' = [inflight EXCEPT ![w] =
                  [pc |-> "reserve", p |-> p, request_id |-> request_id]]
           /\ UNCHANGED <<assets, assetLabels, roles, users, requests,
                          assignments, now, resp, signed, labelTable, wrapper,
                          linkedAssets>>

\* asset_repo.update(request_model.asset, {"status": "Reserved"}) and its commit
approve_request_reserve(w) ==
    /\ inflight[w].pc = "reserve"
    /\ assets' = [assets EXCEPT
                     ![requests[inflight[w].request_id].asset_id].status =
                         "Reserved"]
    /\ inflight' = [inflight EXCEPT ![w].pc = "approve"]
    /\ UNCHANGED <<assetLabels, roles, users, requests, assignments, now,
                   resp, signed, labelTable, wrapper, linkedAssets>>

\* repo.update(request_model, {"status": "Approved", ...}), its commit and
\* the 200 response
approve_request_update(w) ==
    /\ inflight[w].pc = "approve"
    /\ requests' = [requests EXCEPT
                       ![inflight[w].request_id].status = "Approved",
                       ![inflight[w].request_id].approved_by = inflight[w].p]
    /\ signed' = [signed EXCEPT ![inflight[w].request_id] = @ + 1]
    /\ resp' = Response("approve_request", HTTP_200_OK)
    /\ inflight' = [inflight EXCEPT ![w] = Idle]
    /\ UNCHANGED <<assets, assetLabels, roles, users, assignments, now,
                   labelTable, wrapper, linkedAssets>>

\* reject_request up to the role check
reject_request_read(w, p, request_id) ==
    LET op == "reject_request" IN
    /\ inflight[w] = Idle
    /\ IF get_by_id(requests, request_id) = None
       THEN Fail(op, HTTP_404_NOT_FOUND)
       ELSE IF requests[request_id].status # "Pending"
       THEN Fail(op, HTTP_409_CONFLICT)
       ELSE IF ~has_role(p, "CheckInOutAsset",
                         assetLabels[requests[request_id].asset_id])
       THEN Fail(op, HTTP_403_FORBIDDEN)
       ELSE
           /\ inflight' = [inflight EXCEPT ![w] =
                  [pc |-> "reject", p |-> p, request_id |-> request_id]]
           /\ UNCHANGED <<assets, assetLabels, roles, users, requests,
                          assignments, now, resp, signed, labelTable, wrapper,
                          linkedAssets>>

\* repo.update(request_model, {"status": "Rejected", ...}), its commit and
\* the 200 response
reject_request_update(w) ==
    /\ inflight[w].pc = "reject"
    /\ requests' = [requests EXCEPT
                       ![inflight[w].request_id].status = "Rejected",
                       ![inflight[w].request_id].approved_by = inflight[w].p]
    /\ signed' = [signed EXCEPT ![inflight[w].request_id] = @ + 1]
    /\ resp' = Response("reject_request", HTTP_200_OK)
    /\ inflight' = [inflight EXCEPT ![w] = Idle]
    /\ UNCHANGED <<assets, assetLabels, roles, users, assignments, now,
                   labelTable, wrapper, linkedAssets>>

\* One 'Available' asset with one 'Pending' request for it and no lock
\* around the handlers.
InitDecisions ==
    /\ now = StartDay
    /\ assets = [a \in 1..NumAssets |->
                    [status |-> "Available", last_maintenance |-> 0,
                     maintenance_rate |-> MaxMaintenanceRate,
                     is_deleted |-> FALSE]]
    /\ \E l \in SUBSET Labels : assetLabels = [a \in 1..NumAssets |-> l]
    /\ roles = <<[user_id |-> 1, role |-> "CheckInOutAsset", scope |-> "*"],
                 [user_id |-> 2, role |-> "CheckInOutAsset", scope |-> "B"]>>
    /\ users = [u \in UserIds |->
                   [labels |-> {}, is_disabled |-> FALSE, is_deleted |-> FALSE,
                    reset_password |-> FALSE]]
    /\ requests = <<[user_id |-> NumUsers, asset_id |-> 1,
                     status |-> "Pending", approved_by |-> None]>>
    /\ assignments = <<>>
    /\ resp = Response("none", HTTP_200_OK)
    /\ signed = [r \in 1..MaxRequests |-> 0]
    /\ labelTable = <<"A", "B">>
    /\ inflight = [w \in Workers |-> Idle]
    /\ wrapper = FALSE
    /\ linkedAssets = <<>>

NextDecisions ==
    \/ \E w \in Workers, p \in UserIds, r \in RequestIdInputs :
          approve_request_read(w, p, r)
    \/ \E w \in Workers : approve_request_reserve(w)
    \/ \E w \in Workers : approve_request_update(w)
    \/ \E w \in Workers, p \in UserIds, r \in RequestIdInputs :
          reject_request_read(w, p, r)
    \/ \E w \in Workers : reject_request_update(w)

SpecDecisions == InitDecisions /\ [][NextDecisions]_vars

\* the conditions under which check_out_request answers 200
check_out_request_accepts(p, request_id, due_in_days) ==
    /\ due_in_days >= 1
    /\ get_by_id(requests, request_id) # None
    /\ has_role(p, "CheckInOutAsset", assetLabels[requests[request_id].asset_id])
    /\ assets[requests[request_id].asset_id].status = "Reserved"

\* ------------------------------------------------------------------ helpers
ValidDueInDays == {d \in DueInDaysInputs : d >= 1}

\* ------------------------------------------------------------------- claims

\* C1 (P5, lifecycle exclusivity): in every state reached from the state with
\* no assignments, every asset has at most one Assignment whose returned_at
\* is null.
C1_AtMostOneActiveAssignment ==
    \A a \in DOMAIN assets : Cardinality(get_asset_assignment(a)) <= 1

\* C2 (P6, status/assignment coherence): an asset's status is 'In Use' if and
\* only if the asset has an Assignment with returned_at null.
C2_InUseIffActiveAssignment ==
    \A a \in DOMAIN assets :
        assets[a].status = "In Use" <=> get_asset_assignment(a) # {}

\* C3: an asset's status is 'Reserved' if and only if there is a Request for
\* that asset whose status is 'Approved'.
C3_ReservedIffApprovedRequest ==
    \A a \in DOMAIN assets :
        assets[a].status = "Reserved" <=>
            \E r \in DOMAIN requests :
                requests[r].asset_id = a /\ requests[r].status = "Approved"

\* C4: check-out by request (authorized principal, valid due_in_days) on a
\* request whose status is Pending, Rejected or Fulfilled yields Conflict and
\* creates no Assignment; it succeeds only for an Approved request whose
\* asset is 'Reserved'.
C4_CheckOutRequestNeedsApproved ==
    [][\A p \in UserIds, r \in DOMAIN requests, d \in ValidDueInDays :
          ( /\ check_out_request(p, r, d)
            /\ has_role(p, "CheckInOutAsset", assetLabels[requests[r].asset_id])
            /\ ~( requests[r].status = "Approved"
                  /\ assets[requests[r].asset_id].status = "Reserved" ) )
          => (resp'.code = HTTP_409_CONFLICT /\ assignments' = assignments)]_vars

\* C5: a Request's status changes only along Pending->Approved,
\* Pending->Rejected and Approved->Fulfilled (the last only through check-out
\* by request); Rejected and Fulfilled are terminal; a new request starts as
\* Pending.
RequestEdges ==
    {<<"Pending", "Approved">>, <<"Pending", "Rejected">>,
     <<"Approved", "Fulfilled">>}

C5_RequestStatusEdges ==
    [][ /\ \A r \in DOMAIN requests :
              \/ requests'[r].status = requests[r].status
              \/ /\ <<requests[r].status, requests'[r].status>> \in RequestEdges
                 /\ requests'[r].status = "Fulfilled"
                        => resp'.op = "check_out_request"
        /\ \A r \in DOMAIN requests' \ DOMAIN requests :
              requests'[r].status = "Pending" ]_vars
\* C6 (P7, request terminal-once): approve or reject applied to a request
\* whose status is not Pending yields Conflict and changes nothing, so each
\* request has at most one successful approve/reject in any history.
C6_ApproveRejectOnce ==
    /\ [][\A p \in UserIds, r \in DOMAIN requests :
             ( /\ approve_request(p, r) \/ reject_request(p, r)
               /\ requests[r].status # "Pending" )
             => ( /\ resp'.code = HTTP_409_CONFLICT
                  /\ UNCHANGED <<assets, requests, assignments, signed>> )]_vars
    /\ [](\A r \in DOMAIN signed : signed[r] <= 1)

\* a second approve/reject call on an already handled request was answered 409
C6_Witness ==
    /\ Len(requests) = 1
    /\ requests[1].status \in {"Approved", "Rejected"}
    /\ signed[1] = 1
    /\ resp.op \in {"approve_request", "reject_request"}
    /\ resp.code = HTTP_409_CONFLICT

\* C7: direct check-out by an authorized principal on an 'Available' asset
\* sets the status to 'In Use' and creates exactly one Assignment with the
\* given asset and user, assigned_by = the principal, due_date = today +
\* due_in_days (due_in_days >= 1) and returned_at null; on an asset whose
\* status is not 'Available' it yields Conflict and changes nothing.
C7_DirectCheckOut ==
    [][\A p \in UserIds, a \in DOMAIN assets, u \in AssigneeInputs,
          d \in ValidDueInDays :
          ( /\ check_out_asset(p, a, u, d)
            /\ has_role(p, "CheckInOutAsset", assetLabels[a]) )
          => IF assets[a].status = "Available"
             THEN /\ resp'.code = HTTP_200_OK
                  /\ assets'[a].status = "In Use"
                  /\ assignments' = Append(assignments,
                        [asset_id |-> a, user_id |-> u, assigned_by_id |-> p,
                         due_date |-> now + d, returned_at |-> None,
                         request_id |-> None])
             ELSE /\ resp'.code = HTTP_409_CONFLICT
                  /\ UNCHANGED <<assets, assignments>>]_vars

\* the immediate retry of a successful direct check-out was answered 409
C7_Witness ==
    /\ resp = Response("check_out_asset", HTTP_409_CONFLICT)
    /\ assets[1].status = "In Use"
    /\ Len(assignments) = 1
    /\ assignments[1] = [asset_id |-> 1, user_id |-> NumUsers, assigned_by_id |-> 1,
                         due_date |-> now + 1, returned_at |-> None,
                         request_id |-> None]

\* C8: check-in by asset id (authorized principal) succeeds only when the
\* asset is 'In Use' and has an Assignment with returned_at null; on success
\* the status becomes 'Available' and one such assignment gets returned_at =
\* now; otherwise it yields Conflict and changes nothing.
C8_CheckInByAssetId ==
    [][\A p \in UserIds, a \in DOMAIN assets :
          ( /\ check_in_asset_by_asset_id(p, a)
            /\ has_role(p, "CheckInOutAsset", assetLabels[a]) )
          => IF assets[a].status = "In Use" /\ get_asset_assignment(a) # {}
             THEN /\ resp'.code = HTTP_200_OK
                  /\ assets'[a].status = "Available"
                  /\ \E i \in get_asset_assignment(a) :
                        assignments' = [assignments EXCEPT ![i].returned_at = now]
             ELSE /\ resp'.code = HTTP_409_CONFLICT
                  /\ UNCHANGED <<assets, assignments>>]_vars

\* a check-in by asset id was refused on a 'Reserved' asset that still holds
\* an active assignment
C8_Witness ==
    /\ resp = Response("check_in_asset_by_asset_id", HTTP_409_CONFLICT)
    /\ assets[1].status = "Reserved"
    /\ get_asset_assignment(1) # {}

\* C9: check-in by assignment id yields Conflict (409) when the id resolves
\* to no Assignment and, for an authorized principal, when the assignment's
\* asset is not 'In Use'; when the asset is 'In Use' it sets the asset to
\* 'Available' and that assignment's returned_at to now.
C9_CheckInByAssignmentId ==
    [][\A p \in UserIds :
          /\ \A i \in AssignmentIdInputs \ DOMAIN assignments :
                check_in_asset_by_assignment_id(p, i)
                => ( /\ resp'.code = HTTP_409_CONFLICT
                     /\ UNCHANGED <<assets, assignments>> )
          /\ \A i \in DOMAIN assignments :
                ( /\ check_in_asset_by_assignment_id(p, i)
                  /\ has_role(p, "CheckInOutAsset",
                              assetLabels[assignments[i].asset_id]) )
                => IF assets[assignments[i].asset_id].status = "In Use"
                   THEN /\ resp'.code = HTTP_200_OK
                        /\ assets'[assignments[i].asset_id].status = "Available"
                        /\ assignments' =
                              [assignments EXCEPT ![i].returned_at = now]
                   ELSE /\ resp'.code = HTTP_409_CONFLICT
                        /\ UNCHANGED <<assets, assignments>>]_vars

\* a check-in by assignment id was answered 409 for an assignment whose asset
\* had already been checked in
C9_Witness ==
    /\ resp = Response("check_in_asset_by_assignment_id", HTTP_409_CONFLICT)
    /\ Len(assignments) = 1
    /\ assignments[1].returned_at = now
    /\ assets[assignments[1].asset_id].status = "Available"

\* C10: every operation given an Asset, Request or Assignment id that does
\* not resolve answers NotFound (404) and no other error kind.
C10_UnresolvedIdIsNotFound ==
    [][\A p \in UserIds :
          /\ \A a \in AssetIdInputs \ DOMAIN assets :
                ( \/ \E u \in AssigneeInputs, d \in ValidDueInDays :
                        check_out_asset(p, a, u, d)
                  \/ check_in_asset_by_asset_id(p, a)
                  \/ submit_request(p, a)
                  \/ check_out_asset_for_maintenance(p, a)
                  \/ check_in_asset_from_maintenance(p, a) )
                => resp'.code = HTTP_404_NOT_FOUND
          /\ \A r \in RequestIdInputs \ DOMAIN requests :
                ( \/ \E d \in ValidDueInDays : check_out_request(p, r, d)
                  \/ approve_request(p, r)
                  \/ reject_request(p, r) )
                => resp'.code = HTTP_404_NOT_FOUND
          /\ \A i \in AssignmentIdInputs \ DOMAIN assignments :
                ( \/ check_in_asset_by_assignment_id(p, i)
                  \/ \E d \in 0..MaxDueInDays :
                        request_assignment_return(p, i, d) )
                => resp'.code = HTTP_404_NOT_FOUND]_vars

\* C11: maintenance check-out (authorized principal) succeeds only from status
\* 'Available' and sets 'Maintenance'; maintenance check-in succeeds only from
\* status 'Maintenance' and sets 'Available' with last_maintenance = now; any
\* other starting status yields Conflict and changes nothing; neither
\* operation creates or changes an Assignment.
C11_MaintenanceTransitions ==
    [][\A p \in UserIds, a \in DOMAIN assets :
          /\ ( /\ check_out_asset_for_maintenance(p, a)
               /\ has_role(p, "CheckInOutAsset", assetLabels[a]) )
             => /\ assignments' = assignments
                /\ IF assets[a].status = "Available"
                   THEN /\ resp'.code = HTTP_200_OK
                        /\ assets' = [assets EXCEPT ![a].status = "Maintenance"]
                   ELSE /\ resp'.code = HTTP_409_CONFLICT
                        /\ assets' = assets
          /\ ( /\ check_in_asset_from_maintenance(p, a)
               /\ has_role(p, "CheckInOutAsset", assetLabels[a]) )
             => /\ assignments' = assignments
                /\ IF assets[a].status = "Maintenance"
                   THEN /\ resp'.code = HTTP_200_OK
                        /\ assets' = [assets EXCEPT
                                         ![a].status = "Available",
                                         ![a].last_maintenance = now]
                   ELSE /\ resp'.code = HTTP_409_CONFLICT
                        /\ assets' = assets]_vars

\* an asset came back from maintenance beside an assignment that was closed
\* earlier, and a second maintenance check-in was answered 409
C11_Witness ==
    /\ resp = Response("check_in_asset_from_maintenance", HTTP_409_CONFLICT)
    /\ assets[1].status = "Available"
    /\ assets[1].last_maintenance = now
    /\ Len(assignments) = 1

\* C12: approving a Pending request (authorized principal) sets the asset's
\* status to 'Reserved' and the request to 'Approved' with approved_by = the
\* principal; rejecting a Pending request sets the request to 'Rejected' with
\* approved_by = the principal and leaves the asset's status and every
\* Assignment unchanged.
C12_ApproveRejectEffects ==
    [][\A p \in UserIds, r \in DOMAIN requests :
          LET a == requests[r].asset_id IN
          /\ ( /\ approve_request(p, r)
               /\ requests[r].status = "Pending"
               /\ has_role(p, "CheckInOutAsset", assetLabels[a]) )
             => /\ resp'.code = HTTP_200_OK
                /\ assets'[a].status = "Reserved"
                /\ requests' = [requests EXCEPT ![r].status = "Approved",
                                                ![r].approved_by = p]
          /\ ( /\ reject_request(p, r)
               /\ requests[r].status = "Pending"
               /\ has_role(p, "CheckInOutAsset", assetLabels[a]) )
             => /\ resp'.code = HTTP_200_OK
                /\ requests' = [requests EXCEPT ![r].status = "Rejected",
                                                ![r].approved_by = p]
                /\ assets' = assets
                /\ assignments' = assignments]_vars

\* a request was rejected while its asset was checked out: the asset is still
\* 'In Use' and its assignment still open
C12_Witness ==
    /\ resp = Response("reject_request", HTTP_200_OK)
    /\ Len(requests) = 1
    /\ requests[1].status = "Rejected" /\ requests[1].approved_by = 1
    /\ assets[1].status = "In Use"
    /\ get_asset_assignment(1) = {1}

\* C13: a lifecycle operation (direct check-out, check-out by request, both
\* check-ins, both maintenance operations, approve, reject) on an existing
\* asset, request or assignment by a principal for whom has_role(principal,
\* 'CheckInOutAsset', labels of the affected asset) does not hold is Forbidden
\* and changes nothing, so every successful transition was performed by a
\* principal for whom it held.
C13_UnauthorizedIsForbidden ==
    [][\A p \in UserIds :
          /\ \A a \in DOMAIN assets :
                ( /\ \/ \E u \in AssigneeInputs, d \in ValidDueInDays :
                           check_out_asset(p, a, u, d)
                     \/ check_in_asset_by_asset_id(p, a)
                     \/ check_out_asset_for_maintenance(p, a)
                     \/ check_in_asset_from_maintenance(p, a)
                  /\ ~has_role(p, "CheckInOutAsset", assetLabels[a]) )
                => ( /\ resp'.code = HTTP_403_FORBIDDEN
                     /\ UNCHANGED <<assets, requests, assignments>> )
          /\ \A r \in DOMAIN requests :
                ( /\ \/ \E d \in ValidDueInDays : check_out_request(p, r, d)
                     \/ approve_request(p, r)
                     \/ reject_request(p, r)
                  /\ ~has_role(p, "CheckInOutAsset",
                               assetLabels[requests[r].asset_id]) )
                => ( /\ resp'.code = HTTP_403_FORBIDDEN
                     /\ UNCHANGED <<assets, requests, assignments>> )
          /\ \A i \in DOMAIN assignments :
                ( /\ check_in_asset_by_assignment_id(p, i)
                  /\ ~has_role(p, "CheckInOutAsset",
                               assetLabels[assignments[i].asset_id]) )
                => ( /\ resp'.code = HTTP_403_FORBIDDEN
                     /\ UNCHANGED <<assets, requests, assignments>> )]_vars

\* the scopes of the grants a principal holds for one role name
ScopesFor(p, R) ==
    {s \in Scopes :
        \E i \in DOMAIN roles : roles[i] = [user_id |-> p, role |-> R, scope |-> s]}

\* C14 (P1/P2, decision rule): for every principal P, role name R and label
\* set L, has_role(P, R, L) is true iff '*' is among the scopes of P's grants
\* whose role name is R, or every label in L is among those scopes; grants of
\* other role names never contribute, and a wildcard grant permits whatever L.
C14_HasRoleDecisionRule ==
    \A p \in UserIds, R \in RoleNames, L \in SUBSET Labels :
        /\ has_role(p, R, L) <=>
              ("*" \in ScopesFor(p, R) \/ L \subseteq ScopesFor(p, R))
        /\ "*" \in ScopesFor(p, R) => has_role(p, R, L)

\* reading an asset labelled {A, B} was refused to a principal whose ReadAsset
\* grants cover only A, although the principal holds '*' for another role
C14_Witness ==
    /\ resp = Response("get_asset", HTTP_403_FORBIDDEN)
    /\ assetLabels[1] = {"A", "B"}
    /\ ScopesFor(2, "ReadAsset") = {"A"}
    /\ ScopesFor(2, "RequestAsset") = {"*"}
    /\ ScopesFor(1, "ReadAsset") = {"A"}

C16_ListingNeedsAGrant ==
    [][\A p \in UserIds :
          get_current_active_user(p) =>
          /\ ( /\ resp'.op \in {"get_assets", "get_assets_by_status",
                                "assets_due_for_maintenance"}
               /\ ScopesFor(p, "ReadAsset") = {}
               /\ \/ get_assets(p)
                  \/ \E st \in AssetStatus : get_assets_by_status(p, st)
                  \/ assets_due_for_maintenance(p) )
             => resp'.code = HTTP_403_FORBIDDEN
          /\ ( /\ resp'.op = "get_users"
               /\ ScopesFor(p, "ReadUser") = {}
               /\ get_users(p) )
             => resp'.code = HTTP_403_FORBIDDEN
          /\ ( /\ resp'.op = "get_all_requests_to_approve"
               /\ ScopesFor(p, "CheckInOutAsset") = {}
               /\ get_all_requests_to_approve(p) )
             => resp'.code = HTTP_403_FORBIDDEN]_vars

\* the asset listing was refused while every asset is unlabeled and not
\* deleted: user 2 holds no ReadAsset grant (user 1 holds one)
C16_Witness ==
    /\ resp = Response("get_assets", HTTP_403_FORBIDDEN)
    /\ \A a \in DOMAIN assets : assetLabels[a] = {} /\ ~assets[a].is_deleted
    /\ ScopesFor(2, "ReadAsset") = {}
    /\ ScopesFor(1, "ReadAsset") # {}

\* C17 (collection visibility): for an active principal holding role R with
\* scope '*', the asset / user listing returns every non-deleted entity; for a
\* principal holding only label scopes S (S non-empty) it returns exactly the
\* non-deleted entities E with labels(E) \subseteq S, which includes every
\* unlabeled entity and excludes any entity carrying a label outside S.
C17_CollectionVisibility ==
    [][\A p \in UserIds :
          get_current_active_user(p) =>
          /\ ( /\ resp'.op = "get_assets"
               /\ ScopesFor(p, "ReadAsset") # {}
               /\ get_assets(p) )
             => /\ resp'.code = HTTP_200_OK
                /\ resp'.items =
                      IF "*" \in ScopesFor(p, "ReadAsset")
                      THEN {a \in DOMAIN assets : ~assets[a].is_deleted}
                      ELSE {a \in DOMAIN assets :
                              /\ ~assets[a].is_deleted
                              /\ assetLabels[a] \subseteq ScopesFor(p, "ReadAsset")}
          /\ ( /\ resp'.op = "get_users"
               /\ ScopesFor(p, "ReadUser") # {}
               /\ get_users(p) )
             => /\ resp'.code = HTTP_200_OK
                /\ resp'.items =
                      IF "*" \in ScopesFor(p, "ReadUser")
                      THEN {u \in DOMAIN users : ~users[u].is_deleted}
                      ELSE {u \in DOMAIN users :
                              /\ ~users[u].is_deleted
                              /\ users[u].labels \subseteq ScopesFor(p, "ReadUser")}]_vars

\* a principal with the single scope A listed the assets: the unlabeled asset
\* 2 is returned, asset 1 labelled {A, B} is not
C17_Witness ==
    /\ resp.op = "get_assets" /\ resp.code = HTTP_200_OK
    /\ resp.items = {2}
    /\ assetLabels[1] = {"A", "B"} /\ assetLabels[2] = {}
    /\ \A a \in DOMAIN assets : ~assets[a].is_deleted
    /\ ScopesFor(1, "ReadAsset") = {"A"}
    /\ ScopesFor(2, "ReadAsset") \in {{}, {"A"}}

\* C18: the 'requests to approve' listing for an active principal with label
\* scopes S for CheckInOutAsset (no wildcard) returns exactly the requests
\* whose associated asset satisfies labels(asset) \subseteq S; the request's
\* requester and status play no part in visibility.
C18_RequestsToApprove ==
    [][\A p \in UserIds :
          ( /\ resp'.op = "get_all_requests_to_approve"
            /\ get_current_active_user(p)
            /\ ScopesFor(p, "CheckInOutAsset") # {}
            /\ "*" \notin ScopesFor(p, "CheckInOutAsset")
            /\ get_all_requests_to_approve(p) )
          => /\ resp'.code = HTTP_200_OK
             /\ resp'.items =
                   {r \in DOMAIN requests :
                       assetLabels[requests[r].asset_id]
                           \subseteq ScopesFor(p, "CheckInOutAsset")}]_vars

\* a principal with the single scope B was shown the Approved request for
\* asset 2 (labelled B) and not the Pending one for asset 1 (labelled A)
C18_Witness ==
    /\ resp.op = "get_all_requests_to_approve" /\ resp.code = HTTP_200_OK
    /\ resp.items = {2}
    /\ requests[2].status = "Approved" /\ requests[1].status = "Pending"
    /\ assetLabels[1] = {"A"} /\ assetLabels[2] = {"B"}
    /\ ScopesFor(2, "CheckInOutAsset") = {"B"}

\* C19 (P8, maintenance due): the due-for-maintenance query returns exactly
\* the non-deleted assets visible to the caller for which now -
\* last_maintenance is strictly greater than maintenance_rate days (an asset
\* exactly at the boundary is not due), whatever the asset's status.
C19_MaintenanceDue ==
    [][\A p \in UserIds :
          ( /\ resp'.op = "assets_due_for_maintenance"
            /\ get_current_active_user(p)
            /\ ScopesFor(p, "ReadAsset") # {}
            /\ assets_due_for_maintenance(p) )
          => /\ resp'.code = HTTP_200_OK
             /\ resp'.items =
                   {a \in DOMAIN assets :
                       /\ ~assets[a].is_deleted
                       /\ \/ "*" \in ScopesFor(p, "ReadAsset")
                          \/ assetLabels[a] \subseteq ScopesFor(p, "ReadAsset")
                       /\ now - assets[a].last_maintenance
                             > assets[a].maintenance_rate}]_vars

\* both assets are visible and not deleted; asset 2 ('Reserved', one day past
\* its rate) is returned, asset 1 (exactly at its rate) is not
C19_Witness ==
    /\ resp.op = "assets_due_for_maintenance" /\ resp.code = HTTP_200_OK
    /\ resp.items = {2}
    /\ \A a \in DOMAIN assets : assetLabels[a] = {} /\ ~assets[a].is_deleted
    /\ now - assets[1].last_maintenance = assets[1].maintenance_rate
    /\ now - assets[2].last_maintenance > assets[2].maintenance_rate
    /\ assets[2].status = "Reserved"

AssetEdges ==
    {<<"Available", "In Use">>, <<"Reserved", "In Use">>,
     <<"In Use", "Available">>, <<"Available", "Maintenance">>,
     <<"Maintenance", "Available">>, <<"Available", "Reserved">>}

C27_AssetStatusEdges ==
    [][\A a \in DOMAIN assets :
          \/ assets'[a].status = assets[a].status
          \/ <<assets[a].status, assets'[a].status>> \in AssetEdges]_vars

\* C28: an Assignment's returned_at is written at most once: check-in by
\* assignment id applied to an assignment that is already returned is
\* rejected and changes nothing, so a successful check-in by assignment id
\* always leaves the asset with no active Assignment.
C28_ReturnedAtWrittenOnce ==
    [][\A p \in UserIds, i \in DOMAIN assignments :
          ( /\ resp'.op = "check_in_asset_by_assignment_id"
            /\ check_in_asset_by_assignment_id(p, i) )
          => /\ assignments[i].returned_at # None
                => ( resp'.code # HTTP_200_OK /\ assignments' = assignments )
             /\ resp'.code = HTTP_200_OK
                => {j \in DOMAIN assignments' :
                       /\ assignments'[j].returned_at = None
                       /\ assignments'[j].asset_id = assignments[i].asset_id} = {}]_vars

\* C29: in every reachable state each Request is referenced by at most one
\* Assignment (request_id is unique among assignments), so a Fulfilled
\* request is never used for a second check-out.
C29_RequestIdUnique ==
    \A r \in DOMAIN requests :
        Cardinality({i \in DOMAIN assignments : assignments[i].request_id = r}) <= 1

\* C22: assign_role(U, R, s) and delete_role(U, R, s) succeed only if the
\* acting principal is authorized for 'CreateEditUser' over labels(U) + {s}
\* and for R itself over labels(U) + {s}; a principal without the grant
\* (R, '*') can neither grant (R, '*') nor grant (R, s) for a label s outside
\* their own scopes for R.
C22_GrantNeedsBothRoles ==
    [][\A p \in UserIds, u \in GranteeInputs, r \in RoleInputs, s \in Scopes :
          ( /\ resp'.code = HTTP_200_OK
            /\ \/ resp'.op = "assign_role" /\ assign_role(p, u, r, s)
               \/ resp'.op = "delete_role" /\ delete_role(p, u, r, s) )
          => /\ u \in DOMAIN users
             /\ has_role(p, "CreateEditUser", users[u].labels \cup {s})
             /\ has_role(p, r, users[u].labels \cup {s})
             /\ "*" \notin ScopesFor(p, r)
                   => ( s # "*" /\ s \in ScopesFor(p, r) )]_vars

\* a principal holding ('ReadAsset', 'A') and no wildcard for it has granted
\* ('ReadAsset', 'A') to user 2
C22_Witness ==
    /\ resp = Response("assign_role", HTTP_200_OK)
    /\ "*" \notin ScopesFor(1, "ReadAsset")
    /\ "A" \in ScopesFor(NumUsers, "ReadAsset")

\* C23: granting is not idempotent: an authorized assign_role of a triple
\* (user, role, scope) that is already granted succeeds again and adds one
\* more Role row for the triple, while has_role and every listing answer as
\* they did with one row.
C23_DuplicateGrants ==
    [][\A p \in UserIds, u \in GranteeInputs, r \in RoleInputs, s \in Scopes :
          ( /\ resp'.op = "assign_role"
            /\ get_role(u, r, s) # {}
            /\ get_current_active_user(p)
            /\ has_role(p, "CreateEditUser", users[u].labels \cup {s})
            /\ has_role(p, r, users[u].labels \cup {s})
            /\ assign_role(p, u, r, s) )
          => /\ resp'.code = HTTP_200_OK
             /\ Cardinality(get_role(u, r, s)')
                    = Cardinality(get_role(u, r, s)) + 1
             /\ \A q \in UserIds, R \in RoleNames, L \in SUBSET Labels :
                    has_role(q, R, L)' = has_role(q, R, L)
             /\ \A q \in UserIds :
                    /\ assets_listing(q)' = assets_listing(q)
                    /\ users_listing(q)' = users_listing(q)
                    /\ requests_listing(q)' = requests_listing(q)
                    /\ maintenance_listing(q)' = maintenance_listing(q)]_vars

\* the triple (user 2, 'ReadAsset', 'A') was granted twice
C23_Witness ==
    /\ resp = Response("assign_role", HTTP_200_OK)
    /\ Cardinality(get_role(NumUsers, "ReadAsset", "A")) = 2

\* C24: create_label is idempotent by name: called with a name that exists it
\* returns the existing label and creates no row, so label names stay unique;
\* it succeeds only for a principal holding ('CreateEditUser', '*') or
\* ('CreateEditAsset', '*').
C24_CreateLabelIdempotent ==
    /\ [](\A i, j \in DOMAIN labelTable :
             labelTable[i] = labelTable[j] => i = j)
    /\ [][\A p \in UserIds, name \in Labels :
             ( /\ resp'.op = "create_label"
               /\ resp'.code = HTTP_200_OK
               /\ create_label(p, name) )
             => /\ \/ "*" \in ScopesFor(p, "CreateEditUser")
                   \/ "*" \in ScopesFor(p, "CreateEditAsset")
                /\ get_by_name(name) # None
                      => /\ labelTable' = labelTable
                         /\ resp'.items = {get_by_name(name)}
                /\ get_by_name(name) = None
                      => /\ labelTable' = Append(labelTable, name)
                         /\ resp'.items = {Len(labelTable) + 1}]_vars

\* label 'B' was created and a later create_label('A') returned label 1
C24_Witness ==
    /\ resp = [op |-> "create_label", code |-> HTTP_200_OK, items |-> {1}]
    /\ Len(labelTable) = MaxLabels

\* the scopes for which some user holds role R
HeldScopes(R) ==
    {roles[i].scope : i \in {j \in DOMAIN roles : roles[j].role = R}}

\* C30: no privilege escalation through the API: for every role name R, over
\* any sequence of assign_role, delete_role and label operations, while no
\* user holds (R, '*') no user comes to hold (R, '*') and the set of scopes s
\* such that some user holds (R, s) gains no element.
C30_NoPrivilegeEscalation ==
    [][\A R \in RoleNames :
          "*" \notin HeldScopes(R) => HeldScopes(R)' \subseteq HeldScopes(R)]_vars

\* after label 'B' was created, two users hold ('ReadAsset', 'A') and nobody
\* holds ('ReadAsset', '*') or ('ReadAsset', 'B')
C30_Witness ==
    /\ Len(labelTable) = MaxLabels
    /\ HeldScopes("ReadAsset") = {"A"}
    /\ \A u \in UserIds : "A" \in ScopesFor(u, "ReadAsset")

\* C25: without an external atomic read-modify-write wrapper two concurrent
\* direct check-outs of the same 'Available' asset are not mutually excluded
\* (both read the status before either writes, both succeed, the asset ends
\* with two active Assignments); when each transition runs as one atomic
\* step at most one of them succeeds.
C25_CheckOutsExcludedOnlyByWrapper ==
    /\ [](wrapper => \A a \in DOMAIN assets :
                        Cardinality(get_asset_assignment(a)) <= 1)
    /\ [][\A w \in Workers, a \in DOMAIN assets :
             ( /\ inflight[w].pc = "create"
               /\ inflight[w].asset_id = a
               /\ get_asset_assignment(a) # {}
               /\ check_out_asset_create(w) )
             => /\ ~wrapper
                /\ resp'.code = HTTP_200_OK
                /\ Cardinality(get_asset_assignment(a)')
                       = Cardinality(get_asset_assignment(a)) + 1]_vars

\* with no wrapper both check-outs of asset 1 were answered 200 and the asset
\* has two active Assignments
C25_Witness ==
    /\ ~wrapper
    /\ resp = Response("check_out_asset", HTTP_200_OK)
    /\ \A w \in Workers : inflight[w] = Idle
    /\ assets[1].status = "In Use"
    /\ Cardinality(get_asset_assignment(1)) = 2

\* a call by principal p of a handler that depends on CurrentActiveUser
gated_call(p) ==
    \/ \E u \in UserIdInputs :
          \/ enable_user(p, u)
          \/ reset_password(p, u)
          \/ get_user(p, u)
          \/ \E temp \in BOOLEAN : delete_user(p, u, temp)
    \/ get_users(p)
    \/ get_assets(p)

\* a call by principal p of a handler that depends on
\* CurrentActiveUserPasswordResetRoutes
reset_route_call(p) ==
    get_myself(p) \/ reset_password_self(p)

\* C26 (account gating): an operation is executed on behalf of principal P
\* only if P is neither disabled nor soft-deleted and, for every operation
\* other than get_myself and reset_password_self, P's reset_password flag is
\* false; otherwise the request is answered 401 before any authorization
\* check and changes nothing, so a disabled user cannot re-enable their own
\* account.
C26_AccountGating ==
    [][\A p \in UserIds :
          /\ ( /\ ~( /\ ~users[p].is_disabled
                     /\ ~users[p].is_deleted
                     /\ ~users[p].reset_password )
               /\ gated_call(p) )
             => /\ resp'.code = HTTP_401_UNAUTHORIZED
                /\ UNCHANGED <<assets, assetLabels, roles, users, requests,
                               assignments, labelTable>>
          /\ ( /\ users[p].is_disabled \/ users[p].is_deleted
               /\ reset_route_call(p) )
             => /\ resp'.code = HTTP_401_UNAUTHORIZED
                /\ UNCHANGED <<assets, assetLabels, roles, users, requests,
                               assignments, labelTable>>
          /\ ( /\ users[p].reset_password
               /\ ~users[p].is_disabled
               /\ ~users[p].is_deleted
               /\ reset_route_call(p) )
             => resp'.code = HTTP_200_OK
          /\ ( /\ users[p].is_disabled
               /\ gated_call(p) \/ reset_route_call(p) )
             => users'[p].is_disabled]_vars

\* user 2, disabled and allowed by its grants to enable unlabeled accounts,
\* called enable_user and was answered 401 while user 1 is active
C26_Witness ==
    /\ resp = Response("enable_user", HTTP_401_UNAUTHORIZED)
    /\ users[NumUsers].is_disabled
    /\ has_role(NumUsers, "DisableUser", users[NumUsers].labels)
    /\ get_current_active_user(1)

C39_GetByIdHonoursFlag ==
    /\ \A u \in UserIdInputs :
          /\ get_by_id_include_deleted(users, u, FALSE)
                = IF u \in DOMAIN users /\ ~users[u].is_deleted THEN u ELSE None
          /\ get_by_id_include_deleted(users, u, TRUE)
                = IF u \in DOMAIN users THEN u ELSE None
    /\ \A a \in 1..(NumListedAssets + 1) :
          /\ get_by_id_include_deleted(assets, a, FALSE)
                = IF a \in DOMAIN assets /\ ~assets[a].is_deleted THEN a ELSE None
          /\ get_by_id_include_deleted(assets, a, TRUE)
                = IF a \in DOMAIN assets THEN a ELSE None

\* C32: for an existing asset or request, a principal who is not authorized
\* for 'CheckInOutAsset' over the asset's labels receives Forbidden from
\* every lifecycle operation whatever the asset's or the request's status:
\* any other response code is given only to an authorized principal, so the
\* response never reveals whether the status precondition holds.
C32_ForbiddenWhateverTheStatus ==
    [][resp'.code # HTTP_403_FORBIDDEN =>
          \A p \in UserIds :
             /\ \A r \in DOMAIN requests :
                   ( \/ approve_request(p, r)
                     \/ reject_request(p, r)
                     \/ \E d \in ValidDueInDays : check_out_request(p, r, d) )
                   => has_role(p, "CheckInOutAsset",
                               assetLabels[requests[r].asset_id])
             /\ \A a \in DOMAIN assets :
                   ( \/ \E u \in AssigneeInputs, d \in ValidDueInDays :
                           check_out_asset(p, a, u, d)
                     \/ check_in_asset_by_asset_id(p, a)
                     \/ check_out_asset_for_maintenance(p, a)
                     \/ check_in_asset_from_maintenance(p, a) )
                   => has_role(p, "CheckInOutAsset", assetLabels[a])
             /\ \A i \in DOMAIN assignments :
                   check_in_asset_by_assignment_id(p, i)
                   => has_role(p, "CheckInOutAsset",
                               assetLabels[assignments[i].asset_id])]_vars

\* C31: a soft-deleted (retired) asset takes part in no further lifecycle
\* activity: no new Request is submitted for it, no request for it is
\* approved, no Assignment is created for it and its status never changes
\* after it is soft-deleted.
C31_RetiredAssetIsInert ==
    [][\A a \in DOMAIN assets :
          assets[a].is_deleted
          => /\ assets'[a].status = assets[a].status
             /\ Cardinality({r \in DOMAIN requests' : requests'[r].asset_id = a})
                   = Cardinality({r \in DOMAIN requests : requests[r].asset_id = a})
             /\ \A r \in DOMAIN requests :
                   ( requests[r].asset_id = a /\ requests'[r].status = "Approved" )
                   => requests[r].status = "Approved"
             /\ Cardinality({i \in DOMAIN assignments' :
                                assignments'[i].asset_id = a})
                   = Cardinality({i \in DOMAIN assignments :
                                     assignments[i].asset_id = a})]_vars

\* C33: revocation is effective: after delete_role(U, R, s) succeeds U no
\* longer holds the grant (R, s), and after unassign_label_from_user succeeds
\* the user no longer carries that label, whatever sequence of grants and
\* label assignments preceded it.
C33_RevocationIsEffective ==
    [][/\ \A p \in UserIds, u \in GranteeInputs, r \in RoleInputs, s \in Scopes :
             ( /\ resp'.op = "delete_role"
               /\ resp'.code = HTTP_200_OK
               /\ delete_role(p, u, r, s) )
             => get_role(u, r, s)' = {}
       /\ \A p \in UserIds, u \in GranteeInputs, l \in LabelIdInputs :
             ( /\ resp'.op = "unassign_label_from_user"
               /\ resp'.code = HTTP_200_OK
               /\ unassign_label_from_user(p, u, l) )
             => labelTable[l] \notin users'[u].labels]_vars

\* C34: every asset created through create_asset carries at least one label
\* in every later state: creation rejects an empty or unknown label list and
\* no sequence of label unassignments leaves the asset unlabeled.  The assets
\* after the seeded ones are the ones create_asset made.
C34_CreatedAssetKeepsALabel ==
    \A a \in DOMAIN assets : a > NumAssets => assetLabels[a] # {}

\* C35: the operations outside the lifecycle (create, update and delete
\* asset, link and unlink, label assign and unassign, role grant and revoke,
\* submit request, request-return, the listings and lookups) leave every
\* asset's status and every Assignment's returned_at unchanged and create no
\* Assignment; update_asset changes, of an asset's columns, only the ones of
\* UpdateAssetSchema (maintenance_rate in the table of the model) and no
\* other table.
C35_OutsideLifecycleFrame ==
    [][/\ \A a \in DOMAIN assets : assets'[a].status = assets[a].status
       /\ DOMAIN assignments' = DOMAIN assignments
       /\ \A i \in DOMAIN assignments :
             /\ assignments'[i].returned_at = assignments[i].returned_at
             /\ assignments'[i].asset_id = assignments[i].asset_id
       /\ resp'.op = "update_asset"
          => /\ DOMAIN assets' = DOMAIN assets
             /\ \A a \in DOMAIN assets :
                   assets'[a] = [assets[a] EXCEPT !.maintenance_rate =
                                    assets'[a].maintenance_rate]
             /\ UNCHANGED <<assetLabels, roles, users, requests, assignments,
                            labelTable, linkedAssets>>]_vars

\* an 'In Use' asset with its active Assignment has just had its maintenance
\* rate changed by update_asset
C35_Witness ==
    /\ resp.op = "update_asset"
    /\ resp.code = HTTP_200_OK
    /\ \E a \in DOMAIN assets :
          /\ assets[a].status = "In Use"
          /\ assets[a].maintenance_rate = MaxMaintenanceRate + 1
          /\ \E i \in DOMAIN assignments :
                /\ assignments[i].asset_id = a
                /\ assignments[i].returned_at = None

\* C36: each lifecycle operation is atomic with respect to other requests:
\* whenever another request can start and read the committed tables, an asset
\* whose status check-out has set to 'In Use' has its active Assignment, the
\* two changes of one operation being visible together or not at all.
C36_CheckOutIsAtomic ==
    \A a \in DOMAIN assets :
        ( /\ assets[a].status = "In Use"
          /\ \E w \in Workers : inflight[w] = Idle /\ lock_free(w) )
        => get_asset_assignment(a) # {}

\* C37: when an approve and a reject of the same 'Pending' request run
\* concurrently, exactly one of them succeeds and the other yields Conflict:
\* once every handler has returned no request is 'Rejected' while the asset
\* it asks for, that no other request asks for, is 'Reserved'.
C37_OneDecisionPerRequest ==
    \A r \in DOMAIN requests :
        ( /\ \A w \in Workers : inflight[w] = Idle
          /\ requests[r].status = "Rejected"
          /\ \A q \in DOMAIN requests :
                requests[q].asset_id = requests[r].asset_id => q = r )
        => assets[requests[r].asset_id].status # "Reserved"

\* C38: once an asset is 'Reserved' the only operation that changes its
\* status is check-out by request, which sets it 'In Use': no operation
\* cancels a reservation; and in every state with a 'Reserved' asset some
\* principal's check-out by request for that asset is accepted.
C38_ReservedLeavesOnlyByCheckOut ==
    /\ [](\A a \in DOMAIN assets :
             assets[a].status = "Reserved"
             => \E p \in UserIds, r \in DOMAIN requests :
                   /\ requests[r].asset_id = a
                   /\ check_out_request_accepts(p, r, MaxDueInDays))
    /\ [][\A a \in DOMAIN assets :
             ( assets[a].status = "Reserved" /\ assets'[a].status # "Reserved" )
             => ( resp'.op = "check_out_request"
                  /\ assets'[a].status = "In Use" )]_vars

\* a check-out by request has just taken a 'Reserved' asset to 'In Use' while
\* another request for the same asset is still 'Approved'
C38_Witness ==
    /\ resp.op = "check_out_request"
    /\ resp.code = HTTP_200_OK
    /\ \E r, q \in DOMAIN requests :
          /\ r # q
          /\ requests[r].status = "Fulfilled"
          /\ requests[q].status = "Approved"
          /\ requests[q].asset_id = requests[r].asset_id
          /\ assets[requests[r].asset_id].status = "In Use"
====
